---- MODULE Spec2Model ----
(***************************************************************************)
(* A model of the triple-generation layer of clscorgi / eltec2rdf:         *)
(*   - the graph fragment builder ttl (eltec2rdf/utils/utils.py),          *)
(*   - the ELTeC generator (clscorgi/rdfgenerators.py) as it is driven     *)
(*     by the ELTeC batch runner (clscorgi/eltec/runner.py),               *)
(*   - validation of the DLK records (clscorgi/models.py) under the DLK    *)
(*     runner (clscorgi/dlk/runner.py),                                    *)
(*   - the URI minting function mkuri (clscorgi/utils/utils.py),           *)
(*   - vocabulary lookup (clscorgi/vocabs/vocab_lookup.py),                *)
(*   - the ReM triple generators and runner (clscorgi/rem),                *)
(*   - RDFGenerator as an iterator (eltec2rdf/rdfgenerator_abc.py),        *)
(*   - the decorators require_defaults and ntimes                          *)
(*     (clscorgi/utils/utils.py).                                          *)
(* Each part has its own specification; the variables of the other parts   *)
(* stay at their idle values.                                              *)
(***************************************************************************)
EXTENDS Integers, Sequences, FiniteSets, TLC

VARIABLES
    \* ---- ttl (eltec2rdf/utils/utils.py) ----
    uri,             \* self.uri of the outermost ttl
    pairs,           \* self.predicate_object_pairs of the outermost ttl
    stack,           \* the suspended generator frames of ttl.__iter__, outermost first
    out,             \* the triples yielded so far, in order
    tags,            \* for each yielded triple, the index of the top-level pair being expanded
    bnodes,          \* number of BNode() calls so far
    drained,         \* the generator objects (by their place in pairs) unpacked so far, in order
    \* ---- ELTeC runner and generator (clscorgi/eltec/runner.py, clscorgi/rdfgenerators.py) ----
    vocab_graph,     \* the rdfs:label terms of the loaded vocabulary graph
    batch,           \* the binding records of the run, in order
    idx,             \* position of the for loop over the records
    bindings,        \* self.bindings of the current generator
    work_ids,        \* generate_triples: dict e42 URI -> SourceData
    f3_uris,         \* generate_triples: list of F3 URIs
    author_ids,      \* generate_triples: dict URI -> IDMapping
    uris,            \* generate_triples: the namespace of uri_ns(...)
    seg,             \* 0: no generator; k in 1..19: the chain is at its k-th part; 20: exhausted
    triples,         \* the triples the current generator has yielded so far, in order
    g,               \* the rdflib Graph of the run (a set of triples)
    status,          \* "running", "raised" (an exception left the run), "written" (output serialised)
    error,           \* the exception that left the run
    uuids,           \* number of uuid4() calls so far
    \* ---- mkuri (clscorgi/utils/utils.py) ----
    calls,           \* the calls of mkuri so far, with their arguments and results
    drawn,           \* the values uuid4() has returned in the current process
    run,             \* the number of the current process
    \* ---- vocabulary lookup (clscorgi/vocabs/vocab_lookup.py, eltec2rdf/vocabs/vocabs.py) ----
    vocabs,          \* Vocabs._vocabs: vocabulary name -> graph, a set of (subject, rdfs:label) entries
    lookups,         \* the lookups made so far, with their outcome
    \* ---- RDFGenerator as an iterator (eltec2rdf/rdfgenerator_abc.py, clscorgi/eltec/triple_generators.py) ----
    gen_triples,     \* the triples generate_triples() yields, in order
    positions,       \* iterator object -> number of triples taken from it; iterator 1 is self._triples
    consumers,       \* for each consumer that called iter(generator), the iterator object it got
    delivered,       \* the outcomes of the consumers' next() calls on their iterators, in order
    rdf_graph,       \* self._graph (a set of triples)
    to_graph_calls,  \* the to_graph() calls so far: graph before, positions taken, graph after
    next_calls,      \* the outcomes of next() called on the objects themselves
    \* ---- require_defaults (clscorgi/utils/utils.py) and its use in rem/triple_generators.py ----
    wrapper_calls,   \* the calls of functions decorated with require_defaults, with their outcome
    f3_calls,        \* the calls of f3_triple_generator, with the triples returned
    \* ---- ntimes / static (clscorgi/utils/utils.py) ----
    decorators,      \* the decorator objects ntimes(...) has returned: n, default and the _cnt of their scope
    functions,       \* for each decorated function, the decorator object that wrapped it
    ntimes_calls     \* the calls of decorated functions so far, with their outcome

ttlVars == <<uri, pairs, stack, out, tags, bnodes, drained>>
eltecVars == <<vocab_graph, batch, idx, bindings, work_ids, f3_uris,
    author_ids, uris, seg, triples, g, status, error, uuids>>
mkuriVars == <<calls, drawn, run>>
vocabsVars == <<vocabs, lookups>>
genVars == <<gen_triples, positions, consumers, delivered, rdf_graph,
    to_graph_calls, next_calls>>
decorVars == <<wrapper_calls, f3_calls>>
ntimesVars == <<decorators, functions, ntimes_calls>>
vars == <<ttlVars, eltecVars, mkuriVars, vocabsVars, genVars, decorVars,
    ntimesVars>>

\* a part that is not running has its variables at these values
TtlIdle ==
    /\ uri = <<>> /\ pairs = <<>> /\ stack = <<>> /\ out = <<>>
    /\ tags = <<>> /\ bnodes = 0 /\ drained = <<>>
EltecIdle ==
    /\ vocab_graph = {} /\ batch = <<>> /\ idx = 1 /\ bindings = <<>>
    /\ work_ids = <<>> /\ f3_uris = <<>> /\ author_ids = <<>> /\ uris = <<>>
    /\ seg = 0 /\ triples = <<>> /\ g = {} /\ status = "written"
    /\ error = "" /\ uuids = 0
MkuriIdle ==
    /\ calls = <<>> /\ drawn = {} /\ run = 1
VocabsIdle ==
    /\ vocabs = <<>> /\ lookups = <<>>
GenIdle ==
    /\ gen_triples = <<>> /\ positions = <<>> /\ consumers = <<>>
    /\ delivered = <<>> /\ rdf_graph = {} /\ to_graph_calls = <<>>
    /\ next_calls = <<>>
DecorIdle ==
    /\ wrapper_calls = <<>> /\ f3_calls = <<>>
NtimesIdle ==
    /\ decorators = <<>> /\ functions = <<>> /\ ntimes_calls = <<>>

\* for each part, the variables of the other parts
notTtlVars == <<eltecVars, mkuriVars, vocabsVars, genVars, decorVars,
    ntimesVars>>
NotTtlIdle ==
    /\ EltecIdle /\ MkuriIdle /\ VocabsIdle /\ GenIdle /\ DecorIdle
    /\ NtimesIdle
notEltecVars == <<ttlVars, mkuriVars, vocabsVars, genVars, decorVars,
    ntimesVars>>
NotEltecIdle ==
    /\ TtlIdle /\ MkuriIdle /\ VocabsIdle /\ GenIdle /\ DecorIdle
    /\ NtimesIdle
notMkuriVars == <<ttlVars, eltecVars, vocabsVars, genVars, decorVars,
    ntimesVars>>
NotMkuriIdle ==
    /\ TtlIdle /\ EltecIdle /\ VocabsIdle /\ GenIdle /\ DecorIdle
    /\ NtimesIdle
notVocabsVars == <<ttlVars, eltecVars, mkuriVars, genVars, decorVars,
    ntimesVars>>
NotVocabsIdle ==
    /\ TtlIdle /\ EltecIdle /\ MkuriIdle /\ GenIdle /\ DecorIdle /\ NtimesIdle
notGenVars == <<ttlVars, eltecVars, mkuriVars, vocabsVars, decorVars,
    ntimesVars>>
NotGenIdle ==
    /\ TtlIdle /\ EltecIdle /\ MkuriIdle /\ VocabsIdle /\ DecorIdle
    /\ NtimesIdle
notDecorVars == <<ttlVars, eltecVars, mkuriVars, vocabsVars, genVars,
    ntimesVars>>
NotDecorIdle ==
    /\ TtlIdle /\ EltecIdle /\ MkuriIdle /\ VocabsIdle /\ GenIdle
    /\ NtimesIdle
notNtimesVars == <<ttlVars, eltecVars, mkuriVars, vocabsVars, genVars,
    decorVars>>
NotNtimesIdle ==
    /\ TtlIdle /\ EltecIdle /\ MkuriIdle /\ VocabsIdle /\ GenIdle /\ DecorIdle

-----------------------------------------------------------------------------
(* Values: RDF terms and object specifications.                            *)

Leaf(k, v) == [k |-> k, v |-> v, n |-> 0, kids |-> <<>>]
Lit(v) == Leaf("lit", v)
URIRef(v) == Leaf("uri", v)
\* rdflib.BNode(): every call returns a node with a new identifier
BNode(i) == [k |-> "bnode", v |-> "", n |-> i, kids |-> <<>>]
\* Python values that are no RDF term and no container of pairs
PyNone == Leaf("none", "")
PyDict == Leaf("dict", "")
PySet == Leaf("set", "")
\* list of pairs, generator of pairs, tuple of objects
PyList(ps) == [k |-> "list", v |-> "", n |-> 0, kids |-> ps]
PyGen(ps) == [k |-> "gen", v |-> "", n |-> 0, kids |-> ps]
PyTuple(os) == [k |-> "tuple", v |-> "", n |-> 0, kids |-> os]

Pair(p, o) == [p |-> p, o |-> o]
Triple(s, p, o) == [s |-> s, p |-> p, o |-> o]

BadKinds == {"none", "dict", "set"}
PairContainerKinds == {"list", "gen"}

-----------------------------------------------------------------------------
(* Bounds and the inputs drawn in Init.                                    *)

MaxNodes == 3      \* object specifications of at most this many nodes
MaxDepth == 3      \* chains of nested lists up to this depth
MaxFan == 3        \* fan-out tuples of up to this many objects

Preds == {"p", "q"}
Leaves == {Lit("x"), Lit("y")}
Subjects == {URIRef("s"), BNode(0)}

RECURSIVE Objs(_), PairSeqs(_), ObjSeqs(_)
\* the object specifications of exactly n nodes
Objs(n) ==
    IF n = 0 THEN {}
    ELSE IF n = 1 THEN Leaves \cup {PyList(<<>>), PyGen(<<>>), PyTuple(<<>>)}
    ELSE {PyList(ps) : ps \in PairSeqs(n - 1)}
         \cup {PyGen(ps) : ps \in PairSeqs(n - 1)}
         \cup {PyTuple(os) : os \in ObjSeqs(n - 1)}
\* the sequences of pairs whose objects have n nodes in total
PairSeqs(n) ==
    IF n = 0 THEN {<<>>}
    ELSE UNION {{<<Pair(p, o)>> \o rest :
                    p \in Preds, o \in Objs(k), rest \in PairSeqs(n - k)} :
                k \in 1..n}
ObjSeqs(n) ==
    IF n = 0 THEN {<<>>}
    ELSE UNION {{<<o>> \o rest : o \in Objs(k), rest \in ObjSeqs(n - k)} :
                k \in 1..n}

RECURSIVE Chains(_)
\* one pair whose object is d nested lists (or generators) around a literal
Chains(d) ==
    IF d = 0 THEN {<<Pair(p, Lit("x"))>> : p \in Preds}
    ELSE {<<Pair("p", PyList(c))>> : c \in Chains(d - 1)}
         \cup {<<Pair("q", PyGen(c))>> : c \in Chains(d - 1)}

\* object specifications of none of the shapes ttl recognises
BadObjs == {PyNone, PyDict, PySet}
ShapeErrorInputs ==
    {<<Pair("p", b)>> : b \in BadObjs}
    \cup {<<Pair("q", Lit("x")), Pair("p", b), Pair("q", Lit("y"))>> : b \in BadObjs}
    \cup {<<Pair("p", PyList(<<Pair("q", b)>>))>> : b \in BadObjs}
    \cup {<<Pair("p", PyGen(<<Pair("q", b)>>))>> : b \in BadObjs}
    \cup {<<Pair("p", PyTuple(<<Lit("x"), b>>))>> : b \in BadObjs}

RECURSIVE FanOuts(_)
\* the tuples of n objects, each a literal or a nested-pair list
FanOuts(n) ==
    IF n = 0 THEN {<<>>}
    ELSE {Append(os, o) : os \in FanOuts(n - 1),
                          o \in {Lit("x"), Lit("y"), PyList(<<Pair("q", Lit("x"))>>)}}
\* one pair with a fan-out tuple, alone or between two scalar pairs
FanOutInputs ==
    UNION {{<<Pair("p", PyTuple(os))>> : os \in FanOuts(n)} : n \in 0..MaxFan}
    \cup UNION {{<<Pair("q", Lit("y")), Pair("p", PyTuple(os)), Pair("q", Lit("x"))>> :
                  os \in FanOuts(n)} : n \in 0..MaxFan}

SizedInputs == UNION {PairSeqs(n) : n \in 0..MaxNodes}
ChainInputs == UNION {Chains(d) : d \in 1..MaxDepth}

-----------------------------------------------------------------------------
(* ttl.__iter__ as a machine of generator frames.                          *)

\* a frame of ttl.__iter__: the for loop over predicate_object_pairs at index i
\*   pc = "loop"    at the head of the for loop
\*   pc = "yielded" suspended at the yield of (self.uri, pred, _b)
\*   pc = "from"    delegating to the inner ttl (yield from)
Frame(u, ps, path) ==
    [uri |-> u, pairs |-> ps, i |-> 1, pc |-> "loop", b |-> BNode(0), path |-> path]

Top == stack[Len(stack)]
Cur_Reversed == Top.pairs[Len(Top.pairs) + 1 - Top.i]
\* for pred, obj in self.predicate_object_pairs
Cur == Top.pairs[Top.i]
CurPath == Append(Top.path, Top.i)
AtPair == stack # <<>> /\ Top.pc = "loop" /\ Top.i <= Len(Top.pairs)
SetTop(f) == [stack EXCEPT ![Len(stack)] = f]

\* Python's *obj: a list gives its elements; a generator gives what it has
\* left, which is everything the first time and nothing afterwards
Unpack(obj, path) ==
    IF obj.k = "gen" /\ (\E j \in 1..Len(drained) : drained[j] = path)
    THEN <<>>
    ELSE obj.kids

ZipRepeat_SkipsFirst(pred, os) == [j \in 1..(Len(os) - 1) |-> Pair(pred, os[j + 1])]
\* zip(repeat(pred), obj)
ZipRepeat(pred, os) == [j \in 1..Len(os) |-> Pair(pred, os[j])]

IsPairContainer_ListOnly(obj) == obj.k = "list"
\* case list() | Iterator():  _b = BNode(); yield (self.uri, pred, _b)
IsPairContainer(obj) == obj.k \in PairContainerKinds
NewBNode_Shared == BNode(1)
NewBNode == BNode(bnodes + 1)

Emit(t) ==
    /\ out' = Append(out, t)
    /\ tags' = Append(tags, stack[1].i)

ListYield ==
    /\ AtPair
    /\ IsPairContainer(Cur.o)
    /\ bnodes' = bnodes + 1
    /\ Emit(Triple(Top.uri, Cur.p, NewBNode))
    /\ stack' = SetTop([Top EXCEPT !.pc = "yielded", !.b = NewBNode])
    /\ UNCHANGED <<uri, pairs, drained>>
    /\ UNCHANGED notTtlVars

\* yield from ttl(_b, *obj): the unpacking empties a generator
ListExpand ==
    /\ stack # <<>>
    /\ Top.pc = "yielded"
    /\ stack' = Append(SetTop([Top EXCEPT !.pc = "from"]),
                       Frame(Top.b, Unpack(Cur.o, CurPath), CurPath))
    /\ drained' = IF Cur.o.k = "gen" THEN Append(drained, CurPath) ELSE drained
    /\ UNCHANGED <<uri, pairs, out, tags, bnodes>>
    /\ UNCHANGED notTtlVars

\* case tuple(): yield from ttl(self.uri, *zip(repeat(pred), obj))
TupleStep ==
    /\ AtPair
    /\ Cur.o.k = "tuple"
    /\ stack' = Append(SetTop([Top EXCEPT !.pc = "from"]),
                       Frame(Top.uri, ZipRepeat(Cur.p, Cur.o.kids), CurPath))
    /\ UNCHANGED <<uri, pairs, out, tags, bnodes, drained>>
    /\ UNCHANGED notTtlVars

\* case _: yield (self.uri, pred, obj)
ScalarYield ==
    /\ AtPair
    /\ ~IsPairContainer(Cur.o)
    /\ Cur.o.k # "tuple"
    /\ Emit(Triple(Top.uri, Cur.p, Cur.o))
    /\ stack' = SetTop([Top EXCEPT !.i = @ + 1])
    /\ UNCHANGED <<uri, pairs, bnodes, drained>>
    /\ UNCHANGED notTtlVars

\* the for loop is exhausted: the frame returns and the delegating frame,
\* if any, goes on with its next pair
Return ==
    /\ stack # <<>>
    /\ Top.pc = "loop"
    /\ Top.i > Len(Top.pairs)
    /\ stack' = IF Len(stack) = 1 THEN <<>>
                ELSE LET rest == SubSeq(stack, 1, Len(stack) - 1)
                         par == rest[Len(rest)]
                     IN [rest EXCEPT ![Len(rest)] =
                            [par EXCEPT !.i = @ + 1, !.pc = "loop"]]
    /\ UNCHANGED <<uri, pairs, out, tags, bnodes, drained>>
    /\ UNCHANGED notTtlVars

done == stack = <<>>

\* ttl.__init__, then iter(self)
InitTtl ==
    /\ \/ uri = URIRef("s") /\ pairs \in SizedInputs
       \/ uri \in Subjects /\ pairs \in ChainInputs \cup ShapeErrorInputs \cup FanOutInputs
    /\ stack = <<Frame(uri, pairs, <<>>)>>
    /\ out = <<>>
    /\ tags = <<>>
    /\ bnodes = 0
    /\ drained = <<>>
    /\ NotTtlIdle

NextTtl ==
    \/ ListYield
    \/ ListExpand
    \/ TupleStep
    \/ ScalarYield
    \/ Return

SpecTtl == InitTtl /\ [][NextTtl]_vars

-----------------------------------------------------------------------------
(* Properties of ttl.                                                      *)

IsBNodeLink(t) == t.o.k = "bnode"
OutSet == {out[i] : i \in 1..Len(out)}

RECURSIVE Reaches(_, _), ReachesObj(_, _, _)
\* walking the emitted triples from node along ps arrives at every leaf of ps
Reaches(node, ps) == \A j \in 1..Len(ps) : ReachesObj(node, ps[j].p, ps[j].o)
ReachesObj(node, p, o) ==
    IF o.k \in PairContainerKinds
    THEN \E i \in 1..Len(out) :
            /\ out[i].s = node /\ out[i].p = p /\ IsBNodeLink(out[i])
            /\ Reaches(out[i].o, o.kids)
    ELSE IF o.k = "tuple"
    THEN \A j \in 1..Len(o.kids) : ReachesObj(node, p, o.kids[j])
    ELSE Triple(node, p, o) \in OutSet

\* C1: a nested-pair list, at any depth, is emitted as (s, p, B) with B a
\* blank node that is new (it is not the subject, and no earlier triple
\* mentions it), and the finished expansion links every level to its parent:
\* walking the triples from the top subject reaches every innermost literal.
C1_FreshBlankNodeChain ==
    /\ \A i \in 1..Len(out) :
          IsBNodeLink(out[i]) =>
             /\ out[i].o # uri
             /\ out[i].o # out[i].s
             /\ \A j \in 1..(i - 1) : out[j].o # out[i].o /\ out[j].s # out[i].o
    /\ done => Reaches(uri, pairs)

\* a chain of three nested lists is expanded down to its literal
C1_Witness ==
    /\ done
    /\ pairs \in Chains(3)
    /\ bnodes = 3
    /\ \E i \in 1..Len(out) : out[i].s = BNode(3) /\ out[i].o = Lit("x")

RECURSIVE PickFrom(_, _)
\* the triples of top-level pair i that have the top subject, from position j on
PickFrom(j, i) ==
    IF j > Len(out) THEN <<>>
    ELSE (IF tags[j] = i /\ out[j].s = uri THEN <<out[j]>> ELSE <<>>)
         \o PickFrom(j + 1, i)

PairFinished(i) == done \/ stack[1].i > i
IsFanOut(o) == o.k = "tuple" /\ \A j \in 1..Len(o.kids) : o.kids[j].k # "tuple"

\* C2: a pair (p, (o1, ..., oN)) gives exactly N triples (s, p, oi), in the
\* order of the elements (none for the empty tuple); an element that is a
\* nested-pair list is replaced by its own blank node.
C2_FanOut ==
    \A i \in 1..Len(pairs) :
        (PairFinished(i) /\ IsFanOut(pairs[i].o)) =>
            LET os == pairs[i].o.kids
                ts == PickFrom(1, i)
            IN /\ Len(ts) = Len(os)
               /\ \A j \in 1..Len(os) :
                     /\ ts[j].p = pairs[i].p
                     /\ IF os[j].k \in PairContainerKinds
                        THEN /\ IsBNodeLink(ts[j])
                             /\ \A m \in 1..Len(os) : m # j => ts[m].o # ts[j].o
                        ELSE ts[j].o = os[j]

\* a tuple of three objects, one of them a nested-pair list, is expanded
C2_Witness ==
    /\ done
    /\ pairs = <<Pair("p", PyTuple(<<Lit("x"), PyList(<<Pair("q", Lit("x"))>>), Lit("y")>>))>>
    /\ Len(out) = 4

IsScalarPair(pr) == pr.o.k \notin PairContainerKinds \cup {"tuple"}

\* C3: triples come in the order of the pairs: the pair a triple stems from
\* never decreases along the output, a scalar pair gives exactly its one
\* triple, k scalar pairs give [(s, p_1, o_1), ..., (s, p_k, o_k)] and no
\* pairs give nothing.
C3_PairOrder ==
    /\ Len(tags) = Len(out)
    /\ \A j \in 1..Len(tags) : tags[j] \in 1..Len(pairs)
    /\ \A j \in 1..(Len(tags) - 1) : tags[j] <= tags[j + 1]
    /\ \A i \in 1..Len(pairs) :
          (PairFinished(i) /\ IsScalarPair(pairs[i])) =>
             PickFrom(1, i) = <<Triple(uri, pairs[i].p, pairs[i].o)>>
    /\ (done /\ \A i \in 1..Len(pairs) : IsScalarPair(pairs[i])) =>
          out = [i \in 1..Len(pairs) |-> Triple(uri, pairs[i].p, pairs[i].o)]

\* three pairs, a nested list between two scalars, are expanded in order
C3_Witness ==
    /\ done
    /\ Len(pairs) = 3
    /\ pairs[2].o.k = "list"
    /\ tags = <<1, 2, 3>>

RECURSIVE Listify(_), ListifyObj(_)
\* the same specification with every generator replaced by the list of what
\* it produces
ListifyObj(o) ==
    IF o.k \in PairContainerKinds THEN PyList(Listify(o.kids))
    ELSE IF o.k = "tuple" THEN PyTuple([j \in 1..Len(o.kids) |-> ListifyObj(o.kids[j])])
    ELSE o
Listify(ps) == [j \in 1..Len(ps) |-> Pair(ps[j].p, ListifyObj(ps[j].o))]

RECURSIVE Expansion(_, _, _), ExpansionObj(_, _, _, _)
\* the expansion of section 4.4 for lists, tuples and scalars, with blank
\* nodes numbered from b on: [ts |-> the triples, b |-> the last number used]
ExpansionObj(s, p, o, b) ==
    IF o.k = "list"
    THEN LET inner == Expansion(BNode(b + 1), o.kids, b + 1)
         IN [ts |-> <<Triple(s, p, BNode(b + 1))>> \o inner.ts, b |-> inner.b]
    ELSE IF o.k = "tuple"
    THEN Expansion(s, [j \in 1..Len(o.kids) |-> Pair(p, o.kids[j])], b)
    ELSE [ts |-> <<Triple(s, p, o)>>, b |-> b]
Expansion(s, ps, b) ==
    IF ps = <<>> THEN [ts |-> <<>>, b |-> b]
    ELSE LET h == ExpansionObj(s, ps[1].p, ps[1].o, b)
             t == Expansion(s, Tail(ps), h.b)
         IN [ts |-> h.ts \o t.ts, b |-> t.b]

RECURSIVE GenPaths(_, _), GenPathsObj(_, _)
\* the places of the generator objects of a specification
GenPathsObj(o, path) ==
    IF o.k \in PairContainerKinds
    THEN (IF o.k = "gen" THEN {path} ELSE {}) \cup GenPaths(o.kids, path)
    ELSE IF o.k = "tuple"
    THEN UNION {GenPathsObj(o.kids[j], Append(path, j)) : j \in 1..Len(o.kids)}
    ELSE {}
GenPaths(ps, path) ==
    UNION {GenPathsObj(ps[j].o, Append(path, j)) : j \in 1..Len(ps)}

\* C4: a generator of pairs is expanded like the list of the pairs it
\* produces: the finished output is the expansion of the specification with
\* every generator replaced by its list, and every generator has been
\* unpacked exactly once.
C4_GeneratorAsList ==
    /\ \A i, j \in 1..Len(drained) : drained[i] = drained[j] => i = j
    /\ done =>
          /\ out = Expansion(uri, Listify(pairs), 0).ts
          /\ {drained[i] : i \in 1..Len(drained)} = GenPaths(pairs, <<>>)

\* a generator nested in a generator has been expanded
C4_Witness ==
    /\ done
    /\ pairs = <<Pair("q", PyGen(<<Pair("q", PyGen(<<Pair("p", Lit("x"))>>))>>))>>
    /\ Len(drained) = 2
    /\ Len(out) = 3

\* C5: an object specification of none of the recognised shapes never
\* becomes the object of an emitted triple (the builder fails instead).
C5_ShapeErrorFails ==
    \A i \in 1..Len(out) : out[i].o.k \notin BadKinds

-----------------------------------------------------------------------------
(* ELTeC: binding records, validation, vocabulary lookup, URI allocation.  *)

NONE == "<None>"        \* Python's None where a str is expected
FStr(v) == IF v = NONE THEN "None" ELSE v      \* f"{v}"

RequiredKeys == {"resource_uri", "work_title", "author_name"}
OptionalKeys == {"author_ids", "work_ids"}
ExtraKeys == {"repo_id", "file_stem"}
AllKeys == RequiredKeys \cup OptionalKeys \cup ExtraKeys

vocab_id_types == {"viaf"}
source_types == {"firstEdition", "printSource", "digitalSource", "unspecified"}

IDMapping(t, v) == [id_type |-> t, id_value |-> v]
SourceData(t, v, st) == [id_type |-> t, id_value |-> v, source_type |-> st]

\* the keyword arguments of a generator: keys are the names supplied, and
\* only the fields of supplied names are read
Record(keys, title, aids, wids) ==
    [keys |-> keys,
     resource_uri |-> "https://example.org/ENG0001.xml",
     work_title |-> title,
     author_name |-> "Bar",
     author_ids |-> aids,
     work_ids |-> wids,
     repo_id |-> "ELTeC-eng",
     file_stem |-> "ENG0001"]

MaxIds == 2        \* identifiers (author and work together) of a record
MaxRecords == 3    \* records of a run of several records

AuthorIdChoices == {IDMapping(t, v) : t \in {"viaf", NONE}, v \in {"a1", NONE}}
WorkIdChoices ==
    {SourceData(t, v, st) : t \in {"viaf", NONE}, v \in {"w1", NONE},
                            st \in {"firstEdition", "unspecified"}}

RECURSIVE SeqsOf(_, _)
SeqsOf(S, n) ==
    IF n = 0 THEN {<<>>}
    ELSE {<<x>> \o t : x \in S, t \in SeqsOf(S, n - 1)}

\* records as ELTeCBindingsExtractor builds them: every key, any identifiers
FullRecords ==
    UNION {{Record(AllKeys, "Foo", a, w) : a \in SeqsOf(AuthorIdChoices, c[1]),
                                           w \in SeqsOf(WorkIdChoices, c[2])}
           : c \in {c \in (0..MaxIds) \X (0..MaxIds) : c[1] + c[2] <= MaxIds}}

BaseRecord ==
    Record(AllKeys, "Foo", <<IDMapping("viaf", "a1")>>,
           <<SourceData("viaf", "w1", "firstEdition")>>)
\* the record r with only the keys K supplied
WithKeys(r, K) ==
    [keys |-> K,
     resource_uri |-> IF "resource_uri" \in K THEN r.resource_uri ELSE "",
     work_title |-> IF "work_title" \in K THEN r.work_title ELSE "",
     author_name |-> IF "author_name" \in K THEN r.author_name ELSE "",
     author_ids |-> IF "author_ids" \in K THEN r.author_ids ELSE <<>>,
     work_ids |-> IF "work_ids" \in K THEN r.work_ids ELSE <<>>,
     repo_id |-> IF "repo_id" \in K THEN r.repo_id ELSE "",
     file_stem |-> IF "file_stem" \in K THEN r.file_stem ELSE ""]
PartialRecords ==
    {WithKeys(BaseRecord, K) :
        K \in {K \in SUBSET AllKeys : {"resource_uri", "author_name"} \subseteq K
                                      /\ K # AllKeys}}
\* resource_uri, work_title, author_name, work_ids=[], author_ids=[]
MinimalRecord ==
    WithKeys(Record(AllKeys, "Foo", <<>>, <<>>), RequiredKeys \cup OptionalKeys)
NullTitleRecord == Record(AllKeys, NONE, <<>>, <<>>)
EmptyTitleRecord == Record(AllKeys, "", <<>>, <<>>)
\* records with an id_type or a source_type outside the closed sets, at the
\* first or a later place of the nested lists
InvalidTypeRecords ==
    {Record(AllKeys, "Foo", <<IDMapping("orcid", "a1")>>, <<>>),
     Record(AllKeys, "Foo", <<IDMapping("viaf", "a1"), IDMapping("orcid", "a2")>>, <<>>),
     Record(AllKeys, "Foo", <<>>, <<SourceData("orcid", "w1", "firstEdition")>>),
     Record(AllKeys, "Foo", <<>>, <<SourceData("viaf", "w1", "manuscript")>>),
     Record(AllKeys, "Foo", <<>>, <<SourceData(NONE, "w1", "unspecified"),
                                    SourceData(NONE, "w2", "manuscript")>>)}

Records ==
    FullRecords \cup PartialRecords \cup InvalidTypeRecords
    \cup {MinimalRecord, NullTitleRecord, EmptyTitleRecord}
RunnerRecords ==
    {BaseRecord, Record(AllKeys, "Foo", <<>>, <<>>), MinimalRecord,
     WithKeys(BaseRecord, AllKeys \ {"work_title"})}
Batches ==
    {<<r>> : r \in Records}
    \cup UNION {SeqsOf(RunnerRecords, n) : n \in 0..MaxRecords}
Vocabularies == SUBSET {"TEI", "viaf", "first edition"}

\* pydantic validation of ELTeCBindingsModel(**bindings)
ValidIDMapping_AnyType(m) == TRUE
ValidIDMapping(m) == m.id_type \in vocab_id_types \cup {NONE}
ValidSourceData(m) == ValidIDMapping(m) /\ m.source_type \in source_types
ModelValidates(raw) ==
    /\ RequiredKeys \subseteq raw.keys
    /\ \A k \in RequiredKeys : raw[k] # NONE
    /\ "author_ids" \in raw.keys =>
          \A j \in 1..Len(raw.author_ids) : ValidIDMapping(raw.author_ids[j])
    /\ "work_ids" \in raw.keys =>
          \A j \in 1..Len(raw.work_ids) : ValidSourceData(raw.work_ids[j])

\* resolve_source_type: camelCase split, lowered and joined with a space
resolve_source_type(st) ==
    CASE st = "firstEdition" -> "first edition"
      [] st = "printSource" -> "print source"
      [] st = "digitalSource" -> "digital source"
      [] OTHER -> st

\* vocab(term): the subject URI of the label, as a one-element sequence;
\* the empty sequence stands for VocabLookupException
vocab(term) ==
    IF term \in vocab_graph THEN <<URIRef("vocab:" \o term)>> ELSE <<>>

\* mkuri(hash_value): a uuid4 path (the u-th uuid drawn) without a hash
\* value, the hash of the value otherwise.  In this part the paths are kept
\* symbolic and the uuid4 paths of different draws are different; the
\* truncation of the path is modelled in the mkuri part below.
mkuri(hash_value, u) ==
    IF hash_value = NONE
    THEN [k |-> "uri", v |-> "uuid4", n |-> u, kids |-> <<>>]
    ELSE URIRef("genhash:" \o hash_value)

NoneCount(hs, j) == Cardinality({i \in 1..j : hs[i] = NONE})

\* uri_ns(*names): names are [name, hash], hash = NONE for a plain name
uri_ns(names, u) ==
    [nm \in {names[j].name : j \in 1..Len(names)} |->
        LET j == CHOOSE j \in 1..Len(names) : names[j].name = nm
            hs == [i \in 1..Len(names) |-> names[i].hash]
        IN mkuri(hs[j], u + NoneCount(hs, j))]

Name(nm) == [name |-> nm, hash |-> NONE]
HashedName(nm, h) == [name |-> nm, hash |-> h]

\* a dict as the sequence of its items in insertion order
DictPut(d, key, val) ==
    IF \E j \in 1..Len(d) : d[j].key = key
    THEN [j \in 1..Len(d) |-> IF d[j].key = key THEN [key |-> key, val |-> val] ELSE d[j]]
    ELSE Append(d, [key |-> key, val |-> val])
RECURSIVE DictFrom(_)
DictFrom(items) ==
    IF items = <<>> THEN <<>>
    ELSE LET last == items[Len(items)]
         IN DictPut(DictFrom(SubSeq(items, 1, Len(items) - 1)), last.key, last.val)

RECURSIVE Chain(_)
\* itertools.chain
Chain(ss) == IF ss = <<>> THEN <<>> ELSE Head(ss) \o Chain(Tail(ss))

\* list(ttl(s, *ps)) for pairs of scalars and tuples
TtlTriples(s, ps) == Expansion(s, ps, 0).ts

-----------------------------------------------------------------------------
(* ELTeCRDFGenerator.generate_triples: the parts of the chain.             *)

RDF_type == "rdf:type"
RDFS_label == "rdfs:label"
P2_has_type == "crm:P2_has_type"
P190_has_symbolic_content == "crm:P190_has_symbolic_content"

f1_triples ==
    TtlTriples(uris.f1, <<
        Pair(RDF_type, URIRef("lrm:F1_Work")),
        Pair(RDFS_label, Lit(bindings.work_title \o " [Work]")),
        Pair("lrm:R16i_was_created_by", uris.f27),
        Pair("lrm:R3_is_realised_in", uris.f2),
        Pair("lrm:R74i_has_expression_used_in", uris.f1)>>)

f2_triples ==
    TtlTriples(uris.f2, <<
        Pair(RDF_type, URIRef("lrm:F2_Expression")),
        Pair(RDFS_label, Lit(bindings.work_title \o " [Expression]")),
        Pair("crm:P102_has_title", uris.e35),
        Pair("lrm:R3i_realises", uris.f1),
        Pair("lrm:R17i_was_created_by", uris.f28),
        Pair("lrm:R4i_is_embodied_in", PyTuple(<<uris.x2>> \o f3_uris))>>)

x1_uri == mkuri(bindings.repo_id, 0)
x8_uri == mkuri("ELTeC Level 1 Schema", 0)
schema_level1 == "https://raw.githubusercontent.com/COST-ELTeC/Schemas/master/eltec-1.rng"
schema_uri == mkuri(schema_level1, 0)
e55_eltec_title_uri == mkuri("ELTeC Title", 0)
e55_eltec_id_uri == mkuri("ELTeC ID", 0)
e55_eltec_author_name_uri == mkuri("ELTeC Author Name", 0)

\* repo_id.split('-')[1].upper() for the repositories of the runner
RepoSuffix(repo_id) ==
    CASE repo_id = "ELTeC-eng" -> "ENG"
      [] repo_id = "ELTeC-deu" -> "DEU"
      [] OTHER -> "?"

\* the appellation is a ttl nested as an object: its subject becomes the
\* object of the pair and its triples follow
x1_triples ==
    LET app == mkuri(bindings.repo_id \o " [X1 Appellation]", 0)
    IN TtlTriples(x1_uri, <<
            Pair(RDF_type, URIRef("crmcls:X1_Corpus")),
            Pair("crm:P1_is_identified_by", app)>>)
       \o TtlTriples(app, <<
            Pair(RDF_type, URIRef("crm:E41_Appellation")),
            Pair("rdf:value", Lit("ELTeC " \o RepoSuffix(bindings.repo_id)))>>)
       \o TtlTriples(x1_uri, <<
            Pair("lrm:R71_has_part", uris.x2),
            Pair("crmcls:Y4i_is_subcorpus_of", uris.x1_eltec)>>)

x1_eltec_triples ==
    TtlTriples(uris.x1_eltec, <<
        Pair(RDF_type, URIRef("crmcls:X1_Corpus")),
        Pair("crmcls:Y4_has_subcorpus", x1_uri),
        Pair("crm:P148_has_component", uris.x2)>>)

x2_triples ==
    TtlTriples(uris.x2, <<
        Pair(RDF_type, URIRef("crmcls:X2_Corpus_Document")),
        Pair(RDFS_label, Lit(bindings.work_title \o " [TEI Document]")),
        Pair("crm:P1_is_identified_by", uris.x2_e42),
        Pair("lrm:R4_embodies", uris.f2),
        Pair("lrm:R71i_is_part_of", x1_uri),
        Pair("crmcls:Y2_has_format", vocab("TEI")[1]),
        Pair("crmcls:Y3_adheres_to_schema", x8_uri),
        Pair("crm:P137_exemplifies", uris.x11_eltec)>>)

x2_e42_triples ==
    TtlTriples(uris.x2_e42, <<
        Pair(RDF_type, URIRef("crm:E42_Identifier")),
        Pair(RDFS_label, Lit(bindings.work_title \o " [ELTeC ID]")),
        Pair(P190_has_symbolic_content, Lit(FStr(bindings.file_stem))),
        Pair(P2_has_type, e55_eltec_id_uri)>>)

\* with suppress(VocabLookupException): the triple is yielded when the
\* lookup returns, and nothing is when it raises
Suppressed(s, p, lookup) ==
    IF lookup = <<>> THEN <<>> ELSE <<Triple(s, p, lookup[1])>>

work_id_triples ==
    Chain([j \in 1..Len(work_ids) |->
        LET e42_uri == work_ids[j].key
            work_data == work_ids[j].val
        IN Suppressed(e42_uri, P2_has_type, vocab(work_data.id_type))
           \o TtlTriples(e42_uri, <<
                Pair(RDF_type, URIRef("crm:E42_Identifier")),
                Pair(RDFS_label, Lit(bindings.work_title \o " [ID]")),
                Pair(P190_has_symbolic_content, Lit(FStr(work_data.id_value)))>>)])

\* zip(f3_uris, work_ids.items())
f3_triples ==
    Chain([j \in 1..Len(work_ids) |->
        LET f3_uri == f3_uris[j]
            e42_uri == work_ids[j].key
            work_data == work_ids[j].val
        IN Suppressed(f3_uri, P2_has_type,
                      vocab(resolve_source_type(work_data.source_type)))
           \o TtlTriples(f3_uri, <<
                Pair(RDF_type, URIRef("lrm:F3_Manifestation")),
                Pair(RDFS_label, Lit(bindings.work_title \o " [Manifestation]")),
                Pair("crm:P1_is_identified_by", e42_uri),
                Pair("lrm:R4_embodies", uris.f2)>>)])

x8_triples ==
    TtlTriples(x8_uri, <<
        Pair(RDF_type, URIRef("crmcls:X8_Schema")),
        Pair(RDFS_label, Lit("ELTeC Level 1 RNG Schema")),
        Pair("crm:P1_is_identified_by", schema_uri),
        Pair("crmcls:Y3i_is_schema_of", uris.x2)>>)

f27_triples ==
    TtlTriples(uris.f27, <<
        Pair(RDF_type, URIRef("lrm:F27_Work_Creation")),
        Pair(RDFS_label, Lit(bindings.work_title \o " [Work Creation]")),
        Pair("crm:P14_carried_out_by", uris.e39),
        Pair("lrm:R16_created", uris.f1)>>)

f28_triples ==
    TtlTriples(uris.f28, <<
        Pair(RDF_type, URIRef("lrm:F28_Expression_Creation")),
        Pair(RDFS_label, Lit(bindings.work_title \o " [Expression Creation]")),
        Pair("crm:P14_carried_out_by", uris.e39),
        Pair("lrm:R17_created", uris.f2)>>)

e35_triples ==
    TtlTriples(uris.e35, <<
        Pair(RDF_type, URIRef("crm:E35_Title")),
        Pair("crm:P102i_is_title_of", uris.f2),
        Pair(P2_has_type, e55_eltec_title_uri),
        Pair(RDFS_label, Lit(bindings.work_title \o " [Title of Expression]")),
        Pair("crm:p190_has_symbolic_content", Lit(FStr(bindings.work_title)))>>)

\* mkuri(f"{author_id.id_value} [E42]")
author_e42_uri(author_id) == mkuri(FStr(author_id.id_value) \o " [E42]", 0)

first_id == mkuri(bindings.author_name, 0)
e39_triples ==
    LET rest_ids == [j \in 1..Len(author_ids) |-> author_ids[j].key]
        e42_uris == [j \in 1..Len(author_ids) |-> author_e42_uri(author_ids[j].val)]
    IN TtlTriples(first_id, <<
            Pair(RDF_type, URIRef("crm:E39_Actor")),
            Pair(RDFS_label, Lit(bindings.author_name \o " [Actor]")),
            Pair("crm:P14i_performed", PyTuple(<<uris.f27, uris.f28>>)),
            Pair("crm:P1_is_identified_by", PyTuple(<<uris.e39_e41>> \o e42_uris))>>)
       \o [j \in 1..Len(rest_ids) |-> Triple(first_id, "owl:sameAs", rest_ids[j])]

e39_e41_triples ==
    TtlTriples(uris.e39_e41, <<
        Pair(RDF_type, URIRef("crm:E41_Appellation")),
        Pair(RDFS_label, Lit("ELTeC Author Name [Appellation]")),
        Pair(P190_has_symbolic_content, Lit(bindings.author_name \o " [ELTeC Author Name]")),
        Pair(P2_has_type, e55_eltec_author_name_uri),
        Pair("crm:P1i_identifies", uris.e39)>>)

e39_e42_triples ==
    Chain([j \in 1..Len(author_ids) |->
        LET author_id == author_ids[j].val
            e42_uri == author_e42_uri(author_id)
        IN Suppressed(e42_uri, P2_has_type, vocab(author_id.id_type))
           \o TtlTriples(e42_uri, <<
                Pair(RDF_type, URIRef("crm:E42_Identifier")),
                Pair(RDFS_label, Lit(bindings.author_name \o " [ID]")),
                Pair(P190_has_symbolic_content, Lit(FStr(author_id.id_value)))>>)])

e55_eltec_title_triples ==
    TtlTriples(e55_eltec_title_uri, <<
        Pair(RDF_type, URIRef("crm:E55_Type")),
        Pair(RDFS_label, Lit("ELTeC Work Title")),
        Pair("crm:P2i_is_type_of", uris.e35)>>)

eltec_schema_triples ==
    TtlTriples(schema_uri, <<
        Pair(RDF_type, URIRef("crm:E42_Identifier")),
        Pair(RDFS_label, Lit("Link to ELTeC Level 1 RNG Schema")),
        Pair(P190_has_symbolic_content, Lit(schema_level1))>>)

e55_eltec_id_triples ==
    TtlTriples(e55_eltec_id_uri, <<
        Pair(RDF_type, URIRef("crm:E55_Type")),
        Pair(RDFS_label, Lit("ELTeC Corpus Document ID")),
        Pair("crm:P2i_is_type_of", uris.x2_e42)>>)

e55_eltec_author_name_triples ==
    TtlTriples(e55_eltec_author_name_uri, <<
        Pair(RDF_type, URIRef("crm:E55_Type")),
        Pair(RDFS_label, Lit("ELTeC Author Name")),
        Pair("crm:P2i_is_type_of", uris.e39_e41)>>)

NumParts == 19
\* the k-th iterable of itertools.chain(...)
ChainPart(k) ==
    CASE k = 1 -> f1_triples
      [] k = 2 -> f2_triples
      [] k = 3 -> x1_triples
      [] k = 4 -> x1_eltec_triples
      [] k = 5 -> x2_triples
      [] k = 6 -> x2_e42_triples
      [] k = 7 -> x8_triples
      [] k = 8 -> f3_triples
      [] k = 9 -> f27_triples
      [] k = 10 -> f28_triples
      [] k = 11 -> e35_triples
      [] k = 12 -> e39_triples
      [] k = 13 -> e39_e41_triples
      [] k = 14 -> e39_e42_triples
      [] k = 15 -> e55_eltec_title_triples
      [] k = 16 -> e55_eltec_id_triples
      [] k = 17 -> e55_eltec_author_name_triples
      [] k = 18 -> eltec_schema_triples
      [] OTHER -> work_id_triples

-----------------------------------------------------------------------------
(* The ELTeC run: for each record, construct the generator and add its     *)
(* triples to the graph; then serialise the graph.                         *)

ConstructError_NoValidation(raw) ==
    IF "repo_id" \notin raw.keys THEN "AttributeError" ELSE ""
\* the exception RDFGenerator.__init__ raises for a record, "" for none:
\* validation, then the statements of generate_triples in their order
ConstructError(raw) ==
    IF ~ModelValidates(raw) THEN "ValidationError"
    ELSE IF "work_ids" \notin raw.keys THEN "TypeError"
    ELSE IF "author_ids" \notin raw.keys THEN "TypeError"
    ELSE IF "repo_id" \notin raw.keys THEN "AttributeError"
    ELSE IF vocab("TEI") = <<>> THEN "VocabLookupException"
    ELSE IF "file_stem" \notin raw.keys THEN "AttributeError"
    ELSE ""

AtRecord == status = "running" /\ idx <= Len(batch)

\* triples = ELTeCRDFGenerator(**bindings): validation and the eager part
\* of generate_triples; an exception leaves the run
Construct ==
    /\ AtRecord
    /\ seg = 0
    /\ LET raw == batch[idx]
           err == ConstructError(raw)
           nw == Len(raw.work_ids)
           na == Len(raw.author_ids)
           avals == [j \in 1..na |-> raw.author_ids[j].id_value]
           u == uuids + 2 * nw + NoneCount(avals, na)
       IN IF err # ""
          THEN /\ status' = "raised"
               /\ error' = err
               /\ UNCHANGED <<bindings, work_ids, f3_uris, author_ids, uris, seg, uuids>>
          ELSE /\ bindings' = raw
               /\ work_ids' = DictFrom([j \in 1..nw |->
                                 [key |-> mkuri(NONE, uuids + j), val |-> raw.work_ids[j]]])
               /\ f3_uris' = [j \in 1..nw |-> mkuri(NONE, uuids + nw + j)]
               /\ author_ids' = DictFrom([j \in 1..na |->
                                   [key |-> mkuri(avals[j], uuids + 2 * nw + NoneCount(avals, j)),
                                    val |-> raw.author_ids[j]]])
               /\ uris' = uri_ns(<<Name("e39"), Name("e35"),
                                   HashedName("e39_e41", raw.author_name \o " [E41]"),
                                   Name("x2"), Name("x2_e42"),
                                   HashedName("x1_eltec", "ELTeC [X1]"),
                                   HashedName("x11_eltec", "ELTeC [X11]"),
                                   Name("f1"), Name("f2"), Name("f3"),
                                   Name("f27"), Name("f28")>>, u)
               /\ uuids' = u + 9
               /\ seg' = 1
               /\ UNCHANGED <<status, error>>
    /\ UNCHANGED <<vocab_graph, batch, idx, triples, g>>
    /\ UNCHANGED notEltecVars

\* a step that adds the part's triples and also assigns to a field of the
\* record; the generators have no such step
AddTriples_AssignsField ==
    /\ AtRecord
    /\ seg \in 1..NumParts
    /\ LET ts == ChainPart(seg)
       IN /\ triples' = triples \o ts
          /\ g' = g \cup {ts[j] : j \in 1..Len(ts)}
    /\ bindings' = [bindings EXCEPT !.work_title = "Foo [Work]"]
    /\ seg' = seg + 1
    /\ UNCHANGED <<vocab_graph, batch, idx, work_ids, f3_uris, author_ids,
                   uris, status, error, uuids>>
    /\ UNCHANGED notEltecVars

\* for triple in triples: g.add(triple), for the next part of the chain
AddTriples ==
    /\ AtRecord
    /\ seg \in 1..NumParts
    /\ LET ts == ChainPart(seg)
       IN /\ triples' = triples \o ts
          /\ g' = g \cup {ts[j] : j \in 1..Len(ts)}
    /\ seg' = seg + 1
    /\ UNCHANGED <<vocab_graph, batch, idx, bindings, work_ids, f3_uris,
                   author_ids, uris, status, error, uuids>>
    /\ UNCHANGED notEltecVars

\* a loop that goes on to the next record while the chain of the current
\* one still has parts to give; the runners have no such step
NextRecord_BeforeExhausted ==
    /\ AtRecord
    /\ seg \in 1..NumParts
    /\ idx' = idx + 1
    /\ seg' = 0
    /\ bindings' = <<>> /\ work_ids' = <<>> /\ f3_uris' = <<>>
    /\ author_ids' = <<>> /\ uris' = <<>> /\ triples' = <<>>
    /\ UNCHANGED <<vocab_graph, batch, g, status, error, uuids>>
    /\ UNCHANGED notEltecVars

\* the chain is exhausted: the for loop over the records goes on
NextRecord ==
    /\ AtRecord
    /\ seg = NumParts + 1
    /\ idx' = idx + 1
    /\ seg' = 0
    /\ bindings' = <<>> /\ work_ids' = <<>> /\ f3_uris' = <<>>
    /\ author_ids' = <<>> /\ uris' = <<>> /\ triples' = <<>>
    /\ UNCHANGED <<vocab_graph, batch, g, status, error, uuids>>
    /\ UNCHANGED notEltecVars

\* with open(output_file, "w") as f: f.write(g.serialize())
Serialize ==
    /\ status = "running"
    /\ idx > Len(batch)
    /\ status' = "written"
    /\ UNCHANGED <<vocab_graph, batch, idx, bindings, work_ids, f3_uris,
                   author_ids, uris, seg, triples, g, error, uuids>>
    /\ UNCHANGED notEltecVars

InitEltec ==
    /\ vocab_graph \in Vocabularies
    /\ batch \in Batches
    /\ idx = 1
    /\ bindings = <<>> /\ work_ids = <<>> /\ f3_uris = <<>>
    /\ author_ids = <<>> /\ uris = <<>>
    /\ seg = 0
    /\ triples = <<>>
    /\ g = {}
    /\ status = "running"
    /\ error = ""
    /\ uuids = 0
    /\ NotEltecIdle

NextEltec ==
    \/ Construct
    \/ AddTriples
    \/ NextRecord
    \/ Serialize

SpecEltec == InitEltec /\ [][NextEltec]_vars

-----------------------------------------------------------------------------
(* Properties of the ELTeC generator and run.                              *)

TripleSet == {triples[j] : j \in 1..Len(triples)}
\* the triples of the current generator with subject s and predicate p, in order
TriplesOf(s, p) == SelectSeq(triples, LAMBDA t : t.s = s /\ t.p = p)
Exhausted == seg = NumParts + 1
IsTyped(node, class) == Triple(node, RDF_type, URIRef(class)) \in TripleSet

\* C6: once a record is converted, the URI that F27/F28 give as
\* P14_carried_out_by and the author appellation gives as P1i_identifies is
\* the URI the record types as E39_Actor.
C6_AuthorUriConsistent ==
    Exhausted =>
        \A j \in 1..Len(triples) :
            triples[j].p \in {"crm:P14_carried_out_by", "crm:P1i_identifies"} =>
                IsTyped(triples[j].o, "crm:E39_Actor")

\* C7: when the run has ended, every valid record that comes after a
\* record failing validation has been converted (its triples are in the
\* graph): the failure did not abort the run.
C7_RunContinuesAfterFailure ==
    \A i, j \in 1..Len(batch) :
        (/\ status # "running"
         /\ i < j
         /\ ConstructError(batch[i]) = "ValidationError"
         /\ ConstructError(batch[j]) = "") => j < idx

\* C8: the record of only resource_uri, work_title, author_name and empty
\* work_ids and author_ids is converted without an error, and its triples
\* are the backbone: a Work realised in an Expression, the Expression
\* embodied in the Corpus Document, each typed under the URI it is
\* referenced by, and no work or author identifier.
C8_MinimalRecordSucceeds ==
    (/\ idx <= Len(batch)
     /\ batch[idx] = MinimalRecord
     /\ "TEI" \in vocab_graph) =>
        /\ status # "raised"
        /\ Exhausted =>
              /\ \A t \in TripleSet :
                    /\ t.p = "lrm:R3_is_realised_in" =>
                          IsTyped(t.s, "lrm:F1_Work") /\ IsTyped(t.o, "lrm:F2_Expression")
                    /\ t.p = "lrm:R4i_is_embodied_in" =>
                          IsTyped(t.s, "lrm:F2_Expression")
                          /\ IsTyped(t.o, "crmcls:X2_Corpus_Document")
                    /\ t.o \notin {Lit(bindings.work_title \o " [ID]"),
                                  Lit(bindings.author_name \o " [ID]")}
              /\ \E t \in TripleSet : t.p = "lrm:R3_is_realised_in"
              /\ \E t \in TripleSet : t.p = "lrm:R4i_is_embodied_in"

\* the type triples an identifier or manifestation node is to have: one with
\* the looked-up URI when the term is in the vocabulary, none otherwise
ExpectedType(node, term) ==
    IF term \in vocab_graph
    THEN <<Triple(node, P2_has_type, URIRef("vocab:" \o term))>>
    ELSE <<>>
HasIdentifierBase(node, label, id_value) ==
    /\ IsTyped(node, "crm:E42_Identifier")
    /\ Triple(node, RDFS_label, Lit(label)) \in TripleSet
    /\ Triple(node, P190_has_symbolic_content, Lit(FStr(id_value))) \in TripleSet

\* C9: for every work and author identifier of a record, the identifier's
\* base triples are emitted, and its P2_has_type triples are exactly one
\* with the looked-up URI when its id_type resolves and none when it does
\* not; the same for the source type of a work identifier's manifestation;
\* a generator that was constructed never raises.
C9_UnresolvedTypeOmitted ==
    /\ seg >= 1 => status = "running"
    /\ seg > 8 =>
          \A j \in 1..Len(bindings.work_ids) :
              TriplesOf(f3_uris[j], P2_has_type) =
                 ExpectedType(f3_uris[j],
                              resolve_source_type(bindings.work_ids[j].source_type))
    /\ seg > 14 =>
          \A j \in 1..Len(bindings.author_ids) :
              LET id == bindings.author_ids[j]
              IN /\ HasIdentifierBase(author_e42_uri(id),
                                      bindings.author_name \o " [ID]", id.id_value)
                 /\ TriplesOf(author_e42_uri(id), P2_has_type) =
                       ExpectedType(author_e42_uri(id), id.id_type)
    /\ seg > 19 =>
          \A j \in 1..Len(bindings.work_ids) :
              LET id == bindings.work_ids[j]
              IN /\ HasIdentifierBase(work_ids[j].key,
                                      bindings.work_title \o " [ID]", id.id_value)
                 /\ TriplesOf(work_ids[j].key, P2_has_type) =
                       ExpectedType(work_ids[j].key, id.id_type)

\* the part of C9 the generator does keep: when no two author identifiers of
\* the record share an id_value, every identifier has its base triples and
\* exactly the type triples its lookup gives
DistinctAuthorValues ==
    \A i, j \in 1..Len(bindings.author_ids) :
        bindings.author_ids[i].id_value = bindings.author_ids[j].id_value => i = j
UnresolvedTypeOmittedForDistinctValues ==
    (seg >= 1 /\ DistinctAuthorValues) => C9_UnresolvedTypeOmitted

\* C10: no emitted triple has a null object or the literal rendering of one.
C10_NoAbsentObject ==
    \A j \in 1..Len(triples) :
        /\ triples[j].o.k # "none"
        /\ triples[j].o # Lit(FStr(NONE))

-----------------------------------------------------------------------------
(* DLK: binding records, DLKBindingsModel, and the run of the DLK runner.  *)
(* The run uses the variables of a run (batch, idx, bindings, seg, g,      *)
(* status, error); the ELTeC-only variables stay at their idle values.     *)

DlkRequiredKeys ==
    {"resource_uri", "urn", "dlk_id", "authors", "title", "first_line", "features"}
DlkAuthor(forename, surname, full_name) ==
    [forename |-> forename, surname |-> surname, full_name |-> full_name]

\* the keyword arguments of a DLK generator; keys are the names supplied
DlkRecord(keys, title, authors, first_line) ==
    [keys |-> keys,
     resource_uri |-> "https://example.org/dta.poem.1",
     urn |-> "urn:nbn:de:kobv:b4-200905191",
     dlk_id |-> "dta.poem.1",
     authors |-> authors,
     title |-> title,
     first_line |-> first_line,
     artificial_title |-> "Der mond ist aufgegangen"]

MaxAuthors == 2    \* authors of a DLK record

DlkAuthorChoices ==
    {DlkAuthor("Matthias", "Claudius", "Matthias Claudius"),
     DlkAuthor("Paul", "Gerhardt", "Paul Gerhardt"),
     DlkAuthor("Paul", "Gerhardt", "Gerhardt, Paul")}
DlkTitles == {NONE, "Abendlied", "N.A."}
DlkKeySets ==
    {(DlkRequiredKeys \ D) \cup E : D \in SUBSET {"features"}, E \in SUBSET {"artificial_title"}}
DlkRecords ==
    {DlkRecord(K, t, a, fl) :
        K \in DlkKeySets, t \in DlkTitles,
        a \in UNION {SeqsOf(DlkAuthorChoices, n) : n \in 0..MaxAuthors},
        fl \in {"Der Mond ist aufgegangen", ""}}
DlkBatches == {<<>>} \cup {<<r>> : r \in DlkRecords}

check_full_name_AlwaysPasses(author) == TRUE
\* _DLKAuthorsModel.check_full_name
check_full_name(author) ==
    author.full_name = author.forename \o " " \o author.surname

\* DLKBindingsModel.title_validator: raises for a title starting with N.A.
title_validator_Raises(value) == value = "N.A."
\* ... and otherwise falls off its end: the validated title is None
title_validator(value) == NONE

\* the exception DLKBindingsModel(**bindings) raises, "" for none: the
\* authors are validated before the title; check_full_name raises a plain
\* Exception, which pydantic does not collect but lets through
DlkValidationError(raw) ==
    IF "authors" \in raw.keys
       /\ \E j \in 1..Len(raw.authors) : ~check_full_name(raw.authors[j])
    THEN "Exception"
    ELSE IF "title" \in raw.keys /\ title_validator_Raises(raw.title)
    THEN "ValidationError"
    ELSE IF ~(DlkRequiredKeys \subseteq raw.keys)
    THEN "ValidationError"
    ELSE ""

\* the validated model: declared fields only (extra="ignore"), the title as
\* title_validator returned it
DLKBindingsModel(raw) ==
    [attrs |-> DlkRequiredKeys,
     resource_uri |-> raw.resource_uri,
     urn |-> raw.urn,
     dlk_id |-> raw.dlk_id,
     authors |-> raw.authors,
     title |-> title_validator(raw.title),
     first_line |-> raw.first_line]

\* self.bindings = model(**bindings)
DlkValidate ==
    /\ AtRecord
    /\ seg = 0
    /\ bindings = <<>>
    /\ LET raw == batch[idx]
           err == DlkValidationError(raw)
       IN IF err # ""
          THEN /\ status' = "raised"
               /\ error' = err
               /\ UNCHANGED bindings
          ELSE /\ bindings' = DLKBindingsModel(raw)
               /\ UNCHANGED <<status, error>>
    /\ UNCHANGED <<vocab_graph, batch, idx, work_ids, f3_uris, author_ids,
                   uris, seg, triples, g, uuids>>
    /\ UNCHANGED notEltecVars

\* self._triples = self.generate_triples(): dlk_wemi_triples.__init__
\* evaluates self.bindings.title or self.bindings.artificial_title, and
\* reading an attribute the model does not have raises AttributeError
DlkGenerateTriples ==
    /\ AtRecord
    /\ seg = 0
    /\ bindings # <<>>
    /\ IF bindings.title \notin {NONE, ""} \/ "artificial_title" \in bindings.attrs
       THEN /\ seg' = 1
            /\ UNCHANGED <<status, error>>
       ELSE /\ status' = "raised"
            /\ error' = "AttributeError"
            /\ UNCHANGED seg
    /\ UNCHANGED <<vocab_graph, batch, idx, bindings, work_ids, f3_uris,
                   author_ids, uris, triples, g, uuids>>
    /\ UNCHANGED notEltecVars

InitDlk ==
    /\ vocab_graph = {}
    /\ batch \in DlkBatches
    /\ idx = 1
    /\ bindings = <<>> /\ work_ids = <<>> /\ f3_uris = <<>>
    /\ author_ids = <<>> /\ uris = <<>>
    /\ seg = 0
    /\ triples = <<>>
    /\ g = {}
    /\ status = "running"
    /\ error = ""
    /\ uuids = 0
    /\ NotEltecIdle

\* chain.from_iterable builds the generator of a record when the loop asks
\* for its first triple; with no record left the graph is serialised
NextDlk ==
    \/ DlkValidate
    \/ DlkGenerateTriples
    \/ Serialize

SpecDlk == InitDlk /\ [][NextDlk]_vars

\* no DLK generator is ever iterated: its construction always raises
DlkNeverIterates == seg = 0

\* C11: for a DLK record whose real title is supplied, the validated record
\* holds that title and the generator is built from it without an error (so
\* that its title triples carry the real title and no artificial_title
\* marker).
C11_ArtificialTitleMarker ==
    (/\ idx <= Len(batch)
     /\ bindings # <<>>
     /\ batch[idx].title \notin {NONE, "N.A."}) =>
        /\ bindings.title = batch[idx].title
        /\ status = "running"

HasMiscomposedName(raw) ==
    \E j \in 1..Len(raw.authors) :
        raw.authors[j].full_name # raw.authors[j].forename \o " " \o raw.authors[j].surname

\* C16: a DLK record with an author whose full_name is not forename, one
\* space, surname is never accepted: its construction ends in the exception
\* of the name check, and a record that is accepted holds the authors
\* exactly as they were supplied.
C16_FullNameChecked ==
    idx <= Len(batch) =>
        /\ HasMiscomposedName(batch[idx]) =>
              /\ bindings = <<>>
              /\ status = "raised" => error = "Exception"
        /\ bindings # <<>> => bindings.authors = batch[idx].authors

\* a record with a well-composed and a miscomposed author name was rejected
C16_Witness ==
    /\ status = "raised"
    /\ error = "Exception"
    /\ Len(batch[1].authors) = 2
    /\ batch[1].authors[1].full_name = "Matthias Claudius"
    /\ batch[1].authors[2].full_name = "Gerhardt, Paul"

\* C17: every value supplied for a declared field is in the constructed
\* record unchanged (or construction fails).
C17_NoSilentCoercion ==
    (idx <= Len(batch) /\ bindings # <<>>) =>
        \A k \in {"resource_uri", "urn", "dlk_id", "authors", "title", "first_line"} :
            k \in batch[idx].keys => bindings[k] = batch[idx][k]

-----------------------------------------------------------------------------
(* Further properties of the ELTeC run: validation and the record.         *)

HasRecord == idx <= Len(batch)
\* what the closed sets and the required fields ask of a record
RequiredPresent(r) ==
    \A k \in {"resource_uri", "work_title", "author_name"} :
        k \in r.keys /\ r[k] # NONE
InClosedSets(r) ==
    /\ \A j \in 1..Len(r.author_ids) : r.author_ids[j].id_type \in {"viaf", NONE}
    /\ \A j \in 1..Len(r.work_ids) :
          /\ r.work_ids[j].id_type \in {"viaf", NONE}
          /\ r.work_ids[j].source_type \in
                {"firstEdition", "printSource", "digitalSource", "unspecified"}

\* C12: a record that validates with author_ids or work_ids not supplied
\* (everything else the generator reads being there) is converted without
\* an error.
C12_AbsentIdsOmitted ==
    (/\ HasRecord
     /\ RequiredPresent(batch[idx])
     /\ ExtraKeys \subseteq batch[idx].keys
     /\ ~(OptionalKeys \subseteq batch[idx].keys)
     /\ "TEI" \in vocab_graph) => status # "raised"

\* C13: the step that meets a record failing validation allocates no URI,
\* produces no triple, builds no generator and leaves the graph as it was.
C13_ValidationFailurePreventsGeneration ==
    [][(/\ status = "running"
        /\ HasRecord
        /\ seg = 0
        /\ ~(RequiredPresent(batch[idx]) /\ InClosedSets(batch[idx])))
       => (/\ uuids' = uuids
           /\ triples' = triples
           /\ g' = g
           /\ seg' = 0
           /\ bindings' = bindings
           /\ uris' = uris)]_vars

\* the second record of a run failed validation after the first was
\* converted: the graph holds the first record's triples
C13_Witness ==
    /\ status = "raised"
    /\ error = "ValidationError"
    /\ idx = 2
    /\ g # {}
    /\ uuids = 9

\* C14: a record that exists has every required field and only id_type and
\* source_type values of the closed sets, also inside author_ids and
\* work_ids; when construction raised, no record exists.
C14_AllOrNothing ==
    /\ bindings # <<>> => RequiredPresent(bindings) /\ InClosedSets(bindings)
    /\ status = "raised" => bindings = <<>>
    /\ (HasRecord /\ status = "raised" /\ RequiredPresent(batch[idx])
        /\ InClosedSets(batch[idx])) => error # "ValidationError"

\* a record whose second author identifier has a type outside the closed
\* set was rejected
C14_Witness ==
    /\ status = "raised"
    /\ error = "ValidationError"
    /\ Len(batch[1].author_ids) = 2
    /\ batch[1].author_ids[2].id_type = "orcid"
    /\ bindings = <<>>

\* C15: no record is constructed with an empty required string field.
C15_EmptyStringRejected ==
    bindings # <<>> =>
        \A k \in {"resource_uri", "work_title", "author_name"} : bindings[k] # ""

-----------------------------------------------------------------------------
(* mkuri (clscorgi/utils/utils.py, eltec2rdf/utils/utils.py): URIs from a  *)
(* hash of a label or from uuid4().                                        *)

MaxCalls == 3
MaxRuns == 2

base_uri == "https://clscor.io/entity/"

Labels == {"Foo", "Bar"}
HashFunctions == {"sha256", "md5"}
\* length: int | None, as a one-element sequence or <<>> for None
Lengths == {<<4>>, <<10>>, <<>>}
\* str(uuid4()) values; the first two agree on their first ten characters
Uuid4Values ==
    {"3f2b8c1e-7a4d-4c2b-9e1f-0a1b2c3d4e5f",
     "3f2b8c1e-7b9a-4d3c-8f2e-1b2c3d4e5f60",
     "a81d4fae-7dec-4d0a-a765-00a0c91e6bf6"}

\* hash_function(input.encode()).hexdigest()
hexdigest(hash_function, input) ==
    CASE hash_function = "sha256" /\ input = "Foo" ->
            "1cbec737f863e4922cee63cc2ebbfaafcd1cff8b790d8cfd2e6a5d550b648afa"
      [] hash_function = "sha256" /\ input = "Bar" ->
            "95d64cacce0f0e5b0d1b843862f0accfadb787a4cabb8a88f7f1694ea232a5fc"
      [] hash_function = "md5" /\ input = "Foo" ->
            "1356c67d7ad1638d816bfb822dd2c25d"
      [] hash_function = "md5" /\ input = "Bar" ->
            "ddc35f88fa71b6ef142ae61f35364653"

\* the Python slice string[:length]
Slice(string, length) ==
    IF length = <<>> THEN string
    ELSE IF length[1] >= Len(string) THEN string
    ELSE SubSeq(string, 1, length[1])

\* a digest salted per process, as Python's built-in hash() of a str is
genhash_SaltedPerProcess(input, length, hash_function) ==
    Slice(hexdigest(hash_function, IF run % 2 = 1 THEN input
                                   ELSE CHOOSE l \in Labels : l # input),
          length)

\* lodkit.utils.genhash: the first length characters of the hex digest
genhash(input, length, hash_function) ==
    Slice(hexdigest(hash_function, input), length)

\* _path of mkuri; uuid is the value uuid4() returns in this call
path(hash_value, length, hash_function, uuid) ==
    IF hash_value = NONE THEN uuid
    ELSE genhash(hash_value, length, hash_function)

\* the URI mkuri returns
mkuri_result(hash_value, length, hash_function, uuid) ==
    base_uri \o Slice(path(hash_value, length, hash_function, uuid), length)

Call(hash_value, length, hash_function, uuid) ==
    [run |-> run, hash_value |-> hash_value, length |-> length,
     hash_function |-> hash_function,
     result |-> mkuri_result(hash_value, length, hash_function, uuid)]

\* mkuri(label, length=..., hash_function=...)
MkuriHashed ==
    /\ Len(calls) < MaxCalls
    /\ \E hash_value \in Labels, length \in Lengths, hash_function \in HashFunctions :
          calls' = Append(calls, Call(hash_value, length, hash_function, NONE))
    /\ UNCHANGED <<drawn, run>>
    /\ UNCHANGED notMkuriVars

\* mkuri() / mkuri(length=...): uuid4() returns a value it has not returned
\* before in this process
MkuriRandom ==
    /\ Len(calls) < MaxCalls
    /\ \E uuid \in Uuid4Values \ drawn, length \in Lengths :
          /\ calls' = Append(calls, Call(NONE, length, "sha256", uuid))
          /\ drawn' = drawn \cup {uuid}
    /\ UNCHANGED run
    /\ UNCHANGED notMkuriVars

\* the process ends and another one starts
NewProcess ==
    /\ run < MaxRuns
    /\ run' = run + 1
    /\ drawn' = {}
    /\ UNCHANGED calls
    /\ UNCHANGED notMkuriVars

InitMkuri ==
    /\ calls = <<>>
    /\ drawn = {}
    /\ run = 1
    /\ NotMkuriIdle

NextMkuri == MkuriHashed \/ MkuriRandom \/ NewProcess

SpecMkuri == InitMkuri /\ [][NextMkuri]_vars

Hashed(i) == calls[i].hash_value # NONE
SameArguments(i, j) ==
    /\ calls[i].hash_value = calls[j].hash_value
    /\ calls[i].length = calls[j].length
    /\ calls[i].hash_function = calls[j].hash_function

C20_RandomMkuriFresh ==
    \A i, j \in 1..Len(calls) :
        (/\ i # j
         /\ ~Hashed(i) /\ ~Hashed(j)
         /\ calls[i].run = calls[j].run
         /\ calls[i].length = <<10>> /\ calls[j].length = <<10>>)
            => calls[i].result # calls[j].result

\* with length None the whole uuid4 value is kept: the URIs of one process
\* differ as the uuid4 values do
RandomMkuriFreshUntruncated ==
    \A i, j \in 1..Len(calls) :
        (/\ i # j
         /\ ~Hashed(i) /\ ~Hashed(j)
         /\ calls[i].run = calls[j].run
         /\ calls[i].length = <<>> /\ calls[j].length = <<>>)
            => calls[i].result # calls[j].result

-----------------------------------------------------------------------------
(* Vocabulary lookup (clscorgi/vocabs/vocab_lookup.py,                     *)
(* eltec2rdf/vocabs/vocabs.py).                                            *)

MaxLookups == 2

VocabNames == {"format", "method"}
Entry(s, label) == [s |-> s, label |-> label]
\* entries a vocabulary file may hold: labels that differ in case only, one
\* label that extends another, two subjects with one label
VocabEntries ==
    {Entry("type/1", "TEI"), Entry("type/2", "tei"),
     Entry("type/3", "TEI P5"), Entry("type/4", "TEI")}
Terms == {"TEI", "tei", "TE", "TEI P5"}

\* the same string in upper case, for the strings used here
CaseFolded(string) ==
    CASE string = "tei" -> "TEI"
      [] OTHER -> string

LiteralEq_CaseFolded(label, term) == CaseFolded(label) = CaseFolded(term)
\* the triple pattern (None, RDFS.label, Literal(term)) matches an object
\* that is equal to the literal
LiteralEq(label, term) == label = term

\* graph.subjects(RDFS.label, Literal(term))
subjects(graph, term) == {e.s : e \in {x \in graph : LiteralEq(x.label, term)}}

\* load_vocabs_graph(): every ttl file parsed into one graph
load_vocabs_graph == UNION {vocabs[name] : name \in DOMAIN vocabs}

LookupOutcome(name, term, result, raised) ==
    [name |-> name, term |-> term, result |-> result, raised |-> raised]

\* _lookup_term: next(_subjects), or VocabLookupException on StopIteration;
\* the outcomes the call can have
lookup_term(name, term, graph) ==
    IF subjects(graph, term) = {}
    THEN {LookupOutcome(name, term, NONE, "VocabLookupException")}
    ELSE {LookupOutcome(name, term, s, "") : s \in subjects(graph, term)}

\* vocabs.<name>(term)
VocabsLookup ==
    /\ Len(lookups) < MaxLookups
    /\ \E name \in DOMAIN vocabs, term \in Terms :
          \E outcome \in lookup_term(name, term, vocabs[name]) :
              lookups' = Append(lookups, outcome)
    /\ UNCHANGED vocabs
    /\ UNCHANGED notVocabsVars

\* eltec2rdf: vocab(term), over the graph of all vocabulary files
VocabCall ==
    /\ Len(lookups) < MaxLookups
    /\ \E term \in Terms :
          \E outcome \in lookup_term(NONE, term, load_vocabs_graph) :
              lookups' = Append(lookups, outcome)
    /\ UNCHANGED vocabs
    /\ UNCHANGED notVocabsVars

InitVocabs ==
    /\ vocabs \in [VocabNames -> SUBSET VocabEntries]
    /\ lookups = <<>>
    /\ NotVocabsIdle

NextVocabs == VocabsLookup \/ VocabCall

SpecVocabs == InitVocabs /\ [][NextVocabs]_vars

\* the graph a logged lookup searched
SearchedGraph(l) ==
    IF l.name = NONE THEN load_vocabs_graph ELSE vocabs[l.name]

\* C21: a lookup returns the subject of an entry of the searched vocabulary
\* whose label is the term, character for character; it raises
\* VocabLookupException when the vocabulary has no such entry; and no lookup
\* changes a vocabulary graph.
C21_ExactLookup ==
    /\ [](\A i \in 1..Len(lookups) :
            LET l == lookups[i]
                exact == {e \in SearchedGraph(l) : e.label = l.term}
            IN /\ l.raised = "" => \E e \in exact : e.s = l.result
               /\ l.raised # "" => exact = {} /\ l.raised = "VocabLookupException"
               /\ exact = {} => l.raised # "")
    /\ [][vocabs' = vocabs]_vars

\* "tei" is looked up in a vocabulary that only has "TEI" and "TEI P5" and
\* fails, "TEI" is looked up there and found
C21_Witness ==
    /\ Len(lookups) = 2
    /\ lookups[1].name = "format" /\ lookups[2].name = "format"
    /\ {e.label : e \in vocabs["format"]} = {"TEI", "TEI P5"}
    /\ lookups[1].term = "tei" /\ lookups[1].raised = "VocabLookupException"
    /\ lookups[2].term = "TEI" /\ lookups[2].raised = ""

-----------------------------------------------------------------------------
(* The order of the records in a run.                                      *)

\* C22: the loop leaves a record only when its chain is exhausted and all
\* its triples are in the graph; validation, URI allocation and triple
\* production happen for the record the loop is at and never move the loop.
\* So every triple of a record is in the graph before the next record is
\* validated, gets a URI or gives a triple.
C22_RecordsSequential ==
    [][/\ idx' # idx =>
            /\ idx' = idx + 1
            /\ Exhausted
            /\ TripleSet \subseteq g
            /\ g' = g /\ uuids' = uuids /\ bindings' = <<>> /\ triples' = <<>>
       /\ (uuids' # uuids \/ status' # status
           \/ (bindings' # bindings /\ bindings' # <<>>)
           \/ Len(triples') > Len(triples)) => idx' = idx]_vars

\* the second record of a run is giving triples, the first record's
\* triples are in the graph
C22_Witness ==
    /\ status = "running"
    /\ idx = 2
    /\ seg = 3
    /\ batch[1] = BaseRecord
    /\ Len(triples) > 0
    /\ ~(g \subseteq TripleSet)

-----------------------------------------------------------------------------
(* ReM: the binding model (clscorgi/models.py), the URI namespace and the  *)
(* triple generators (clscorgi/rem/triple_generators.py).                  *)

RemDeclaredKeys == {"id", "title", "genre", "token_count", "publication", "source"}
\* the keys ReMBindingsExtractor supplies
RemExtractedKeys == RemDeclaredKeys \cup {"resource_url"}

PublicationData(idno, date) == [idno |-> idno, date |-> date]
ReMSourceData(msname, idno, tpq, taq, census_link) ==
    [msname |-> msname, repo |-> "Staatsbibliothek", idno |-> idno,
     tpq |-> tpq, taq |-> taq, census_link |-> census_link]
RemRecord(keys, title, genre, publication, source) ==
    [keys |-> keys, id |-> "M001", title |-> title, genre |-> genre,
     token_count |-> "1200", resource_url |-> "https://example.org/M001",
     publication |-> publication, source |-> source]

\* the optional fields that no property here distinguishes are all given or
\* all None
RemRecords ==
    {RemRecord(RemExtractedKeys, "Parzival", o[1],
               PublicationData(pi, o[2]),
               ReMSourceData(o[3], si, tpq, taq, o[4])) :
        o \in {<<NONE, NONE, NONE, NONE>>,
               <<"Epik", "1990", "Cod. 857", "https://example.org/census/1">>},
        pi \in {NONE, "", "P1"}, si \in {"", "S1"},
        tpq \in {NONE, "", "1200"}, taq \in {NONE, "", "1300"}}

RemBaseRecord ==
    RemRecord(RemExtractedKeys, "Parzival", "Epik", PublicationData("P1", "1990"),
              ReMSourceData("Cod. 857", "S1", "1200", "1300",
                            "https://example.org/census/1"))
RemRunnerRecords ==
    {RemBaseRecord,
     RemRecord(RemExtractedKeys, "Parzival", NONE, PublicationData(NONE, NONE),
               ReMSourceData(NONE, "S1", NONE, NONE, NONE)),
     RemRecord(RemExtractedKeys \ {"title"}, "", "Epik", PublicationData("P1", "1990"),
               ReMSourceData(NONE, "S1", NONE, NONE, NONE)),
     RemRecord(RemExtractedKeys, "Parzival", "Epik", PublicationData("P1", "1990"),
               ReMSourceData(NONE, NONE, NONE, NONE, NONE))}
RemBatches == UNION {SeqsOf(RemRunnerRecords, n) : n \in 0..MaxRecords}

\* pydantic validation of ReMBindingsModel(**bindings): every declared field
\* is required; id, title, token_count, source.repo and source.idno are str
RemValidates(raw) ==
    /\ RemDeclaredKeys \subseteq raw.keys
    /\ raw.id # NONE /\ raw.title # NONE /\ raw.token_count # NONE
    /\ raw.source.repo # NONE /\ raw.source.idno # NONE

\* the validated model: the declared fields, other keys are dropped
ReMBindingsModel(raw) ==
    [attrs |-> RemDeclaredKeys, id |-> raw.id, title |-> raw.title,
     genre |-> raw.genre, token_count |-> raw.token_count,
     publication |-> raw.publication, source |-> raw.source]

clscore == "https://clscor.io/entity/"
crmcls == "https://clscor.io/ontologies/CRMcls/"

\* lodkit.mkuri_factory(namespace): the namespace followed by a uuid4 (the
\* u-th drawn) without a hash value, by the hash of the value otherwise
mkuri_factory(namespace, hash_value, u) ==
    IF hash_value = NONE
    THEN [k |-> "uri", v |-> namespace \o "uuid4", n |-> u, kids |-> <<>>]
    ELSE URIRef(namespace \o "genhash:" \o hash_value)

\* lodkit.URINamespace(namespace, names)
URINamespace(namespace, names, u) ==
    [nm \in {names[j].name : j \in 1..Len(names)} |->
        LET j == CHOOSE j \in 1..Len(names) : names[j].name = nm
            hs == [i \in 1..Len(names) |-> names[i].hash]
        IN mkuri_factory(namespace, hs[j], u + NoneCount(hs, j))]

e55_pairs ==
    <<HashedName("e55_work_title", "ReM Work Title [Type]"),
      HashedName("e55_rem_document_id", "ReM Document ID [Type]"),
      HashedName("e55_genre_assignment", "ReM Genre Assignment [Type]"),
      HashedName("e55_genre", "Wikidata Genre [Type]"),
      HashedName("e55_url_id", "ReM URL ID")>>

RemNames ==
    <<Name("f1"), Name("f2"), Name("x2"), Name("f3pub"), Name("f3src"), Name("f5"),
      Name("f27"), Name("f28"), Name("f30_x2"), Name("f30_f3pub"),
      Name("f30_f3src"), Name("f32"), Name("e17"), Name("e35"), Name("e52"),
      HashedName("x1_rem", "ReM [X1]"), HashedName("x11_rem", "ReM [X11]")>>
    \o e55_pairs
RemRandomNames == 15

generate_uri_namespace(u) == URINamespace(clscore, RemNames, u)

\* mkuri = mkuri_factory(crmcls) of rem/triple_generators.py
rem_mkuri(hash_value, u) == mkuri_factory(crmcls, hash_value, u)

\* bool(value) for a str | None
Truthy(value) == value # NONE /\ value # ""

\* list(ttl(s, *ps)) with the blank nodes numbered from b on
TtlTriplesFrom(s, ps, b) == Expansion(s, ps, b).ts
\* a pair whose object is ttl(inner, *ps): the link and the inner triples
NestedTtl(s, p, inner, ps) == <<Triple(s, p, inner)>> \o TtlTriples(inner, ps)

f1_triple_generator(b, u) ==
    TtlTriples(u.f1, <<
        Pair(RDF_type, URIRef("lrm:F1_Work")),
        Pair(RDFS_label, Lit(b.title \o " [Work]")),
        Pair("lrm:R3_is_realised_in", u.f2),
        Pair("lrm:R16i_was_created_by", u.f27)>>)

f2_triple_generator(b, u) ==
    TtlTriples(u.f2, <<
        Pair(RDF_type, URIRef("lrm:F2_Expression")),
        Pair(RDFS_label, Lit(b.title \o " [Expression]")),
        Pair("lrm:R3i_realises", u.f1),
        Pair("lrm:R4i_is_embodied_in", PyTuple(<<u.f3pub, u.f3src>>)),
        Pair("lrm:R17i_was_created_by", u.f28)>>)

\* x2_triple_generator reads bindings.resource_url (line 91) while it builds
\* the arguments of ttl: the call raises when the model has no such attribute
x2_raises(b) == "resource_url" \notin b.attrs
\* the mkuri() calls of x2_triple_generator
x2_mkuri_calls == 4
x2_triple_generator(b, u, n) ==
    LET id1 == rem_mkuri(NONE, n + 1)
        id2 == rem_mkuri(NONE, n + 2)
        e13 == rem_mkuri(NONE, n + 3)
        x3 == rem_mkuri(NONE, n + 4)
    IN TtlTriples(u.x2, <<
            Pair(RDF_type, URIRef("crmcls:X2_Corpus_Document")),
            Pair(RDFS_label, Lit(b.title \o " [Corpus Document Manifestation]")),
            Pair("lrm:R4_embodies", u.f2)>>)
       \o NestedTtl(u.x2, "crm:P1_is_identified_by", id1, <<
            Pair(RDF_type, URIRef("crm:E42_Identifier")),
            Pair(RDFS_label, Lit(b.title \o " [ReM ID]")),
            Pair(P190_has_symbolic_content, Lit(FStr(b.id))),
            Pair(P2_has_type, u.e55_rem_document_id)>>)
       \o NestedTtl(u.x2, "crm:P1_is_identified_by", id2, <<
            Pair(RDF_type, URIRef("crm:E42_Identifier")),
            Pair(RDFS_label, Lit(b.title \o " [ReM URL ID]")),
            Pair(P190_has_symbolic_content, Lit(FStr(b.resource_url))),
            Pair(P2_has_type, u.e55_url_id)>>)
       \o NestedTtl(u.x2, "lrm:R71i_is_part_of", u.x1_rem, <<
            Pair(RDF_type, URIRef("crmcls:X1_Corpus")),
            Pair("lrm:R71_has_part", u.x2),
            Pair("crm:P148_has_component", u.x2)>>)
       \o NestedTtl(u.x2, "crm:P137_exemplifies", u.x11_rem, <<
            Pair(RDF_type, URIRef("crmcls:X11_Prototypical_Document"))>>)
       \o <<Triple(u.x2, "crmcls:Y2_has_format",
                   URIRef("https://clscor.io/entity/type/format/tei"))>>
       \o TtlTriples(e13, <<
            Pair(RDF_type, URIRef("crm:E13_Attribute_Assignment")),
            Pair("crm:P16_used_specific_object", u.x2),
            Pair("crm:P140_assigned_attribute_to", u.x2),
            Pair("crm:P177_assigned_property_of_type", URIRef("crmcls:Y1_exhibits_feature"))>>)
       \o <<Triple(e13, "crm:P141_assigned", x3)>>
       \o TtlTriplesFrom(x3, <<
            Pair(RDF_type, URIRef("crmcls:X3_Feature")),
            Pair(P2_has_type, URIRef("https://clscor.io/entity/type/feature/token")),
            Pair("crm:P91i_is_unit_of", PyList(<<
                Pair(RDF_type, URIRef("crm:E54_Dimension")),
                Pair("crm:P90_has_value", Lit(FStr(b.token_count)))>>))>>, 10)

\* inspect._empty: the default of a parameter declared without one
empty == "<inspect._empty>"
\* check: bool (the default) or lambda x: x is not None
Checks == {"bool", "is_not_None"}
check_default(check, value) ==
    IF check = "bool" THEN Truthy(value) ELSE value # NONE
\* fail_factory: lambda x: tuple() (the default) or lambda x: (x,)
FailFactories == {"tuple", "tuple_of"}
fail_factory_result(fail_factory, default) ==
    IF fail_factory = "tuple" THEN <<>> ELSE <<default>>
\* the first parameter, in declaration order, whose default fails check
\* (0: none); parameters are the declared defaults of the decorated function
FirstFailing(check, parameters) ==
    LET failing == {j \in 1..Len(parameters) :
                       /\ parameters[j] # empty
                       /\ ~check_default(check, parameters[j])}
    IN IF failing = {} THEN 0
       ELSE CHOOSE j \in failing : \A k \in failing : j <= k
\* _wrapper of require_defaults up to the call of f: skip with
\* fail_factory(default), or go on to f(*args, **kwargs)
require_defaults_Never(check, fail_factory, parameters) ==
    [skip |-> FALSE, value |-> <<>>]
require_defaults(check, fail_factory, parameters) ==
    LET j == FirstFailing(check, parameters)
    IN IF j # 0
       THEN [skip |-> TRUE,
             value |-> fail_factory_result(fail_factory, parameters[j])]
       ELSE [skip |-> FALSE, value |-> <<>>]
\* idno_triples of _f3_triple_template, decorated with require_defaults()
idno_triples(s, idno, bn) ==
    LET wrapper == require_defaults("bool", "tuple", <<idno>>)
    IN IF wrapper.skip THEN wrapper.value
       ELSE TtlTriplesFrom(s, <<
                Pair("crm P1_is_identified_by", PyList(<<
                    Pair(RDF_type, URIRef("crm E41_Appellation")),
                    Pair(P190_has_symbolic_content, Lit(FStr(idno)))>>))>>, bn)
f3_triple_template(u, s, label, symbolic_content, bn) ==
    TtlTriples(s, <<
        Pair(RDF_type, URIRef("lrm:F3_Manifestation")),
        Pair(RDFS_label, Lit(label)),
        Pair("lrm:R4_embodies", u.f2)>>)
    \o idno_triples(s, symbolic_content, bn)

f3_triple_generator(b, u) ==
    f3_triple_template(u, u.f3pub, b.title \o " [Publication Manifestation]",
                       b.publication.idno, 20)
    \o f3_triple_template(u, u.f3src, b.title \o " [Source Manifestation]",
                          b.source.idno, 30)

f5_e42_generator(u, symbolic_content, bn) ==
    IF Truthy(symbolic_content)
    THEN TtlTriplesFrom(u.f5, <<
            Pair("crm:P1_is_identified_by", PyList(<<
                Pair(RDF_type, URIRef("crm:E42_Identifier")),
                Pair(P190_has_symbolic_content, Lit(symbolic_content))>>))>>, bn)
    ELSE <<>>

f5_triple_generator(b, u) ==
    TtlTriplesFrom(u.f5, <<
        Pair(RDF_type, URIRef("lrm:F5_Item")),
        Pair(RDFS_label, Lit(b.title \o " [Physical Item]")),
        Pair("lrm:R7_exemplifies", u.f3src),
        Pair("crm:P49_has_former_or_current_keeper", PyList(<<
            Pair(RDF_type, URIRef("lrm:F11_Corporate_Body")),
            Pair(RDFS_label, Lit(b.source.repo)),
            Pair("crm:P1_is_identified_by", PyList(<<
                Pair(RDF_type, URIRef("crm:E41_Appellation")),
                Pair(P190_has_symbolic_content, Lit(b.source.repo))>>))>>))>>, 40)
    \o f5_e42_generator(u, b.source.msname, 50)
    \o f5_e42_generator(u, b.source.census_link, 60)

e17_triple_generator(b, u) ==
    LET genre == IF Truthy(b.genre) THEN b.genre ELSE "Undefined"
        e55 == rem_mkuri(genre \o " [ReM Genre]", 0)
    IN TtlTriples(u.e17, <<
            Pair(RDF_type, URIRef("crm:E17_Type_Assignment")),
            Pair(P2_has_type, u.e55_genre_assignment),
            Pair("crm:P41_classified",
                 PyTuple(<<u.f1, u.f2, u.x2, u.f3pub, u.f3src>>))>>)
       \o NestedTtl(u.e17, "crm:P42_assigned", e55, <<
            Pair(RDF_type, URIRef("crm:E55_Type")),
            Pair(RDFS_label, Lit(genre \o " [ReM Genre]")),
            Pair("crm:P127_has_broader_term", u.e55_genre)>>)

e35_triple_generator(b, u) ==
    TtlTriples(u.e35, <<
        Pair(RDF_type, URIRef("crm:E35_Title")),
        Pair(RDFS_label, Lit(b.title \o " [Title]")),
        Pair(P190_has_symbolic_content, Lit(b.title \o " [Title]")),
        Pair("crm:P102i_is_title_of", PyTuple(<<u.f1, u.f2, u.x2>>)),
        Pair(P2_has_type, u.e55_work_title)>>)

P4_has_time_span == "crm:P4_has_time-span"
E52_Time_Span == URIRef("crm:E52_Time-Span")
gYear(v) == Leaf("lit", v \o "^^xsd:gYear")

f30_f3pub_triples(b, u) ==
    IF Truthy(b.publication.idno)
    THEN TtlTriples(u.f30_f3pub, <<
            Pair(RDF_type, URIRef("lrm:F30_Manifestation_Creation")),
            Pair(RDFS_label, Lit(b.publication.idno \o " [Manifestation Creation]")),
            Pair("lrm:R24_created", u.f3pub)>>)
         \o (IF Truthy(b.publication.date)
             THEN TtlTriplesFrom(u.f30_f3pub, <<
                    Pair(P4_has_time_span, PyList(<<
                        Pair(RDF_type, E52_Time_Span),
                        Pair("crm:P82_at_some_time_within",
                             gYear(b.publication.date))>>))>>, 70)
             ELSE <<>>)
    ELSE <<>>

f32_triples_AlwaysLinked(b, u) ==
    TtlTriples(u.f32, <<
        Pair(RDF_type, URIRef("lrm:F32_Item_Production_Event")),
        Pair(RDFS_label, Lit(FStr(b.source.idno) \o " [Item Production]")),
        Pair("lrm:R26_produced", u.f5),
        Pair("lrm:R27_materialized", u.f3src)>>)
    \o NestedTtl(u.f32, P4_has_time_span, u.e52, <<Pair(RDF_type, E52_Time_Span)>>)

f32_triples(b, u) ==
    TtlTriples(u.f32, <<
        Pair(RDF_type, URIRef("lrm:F32_Item_Production_Event")),
        Pair(RDFS_label, Lit(FStr(b.source.idno) \o " [Item Production]")),
        Pair("lrm:R26_produced", u.f5),
        Pair("lrm:R27_materialized", u.f3src)>>)
    \o (IF Truthy(b.source.tpq) \/ Truthy(b.source.taq)
        THEN NestedTtl(u.f32, P4_has_time_span, u.e52,
                       <<Pair(RDF_type, E52_Time_Span)>>)
             \o (IF Truthy(b.source.tpq)
                 THEN <<Triple(u.e52, "crm:P81a_end_of_the_begin", gYear(b.source.tpq))>>
                 ELSE <<>>)
             \o (IF Truthy(b.source.taq)
                 THEN <<Triple(u.e52, "crm:P81b_begin_of_the_end", gYear(b.source.taq))>>
                 ELSE <<>>)
        ELSE <<>>)

wemi_e2_triple_generator(b, u) ==
    TtlTriples(u.f27, <<
        Pair(RDF_type, URIRef("lrm:F27_Work_Creation")),
        Pair(RDFS_label, Lit(b.title \o " [Work Creation]")),
        Pair("lrm:R16_created", u.f1)>>)
    \o TtlTriples(u.f28, <<
        Pair(RDF_type, URIRef("lrm:F28_Expression_Creation")),
        Pair(RDFS_label, Lit(b.title \o " [Expression Creation]")),
        Pair("lrm:R19_created_a_realisation_of", u.f1),
        Pair("lrm:R17_created", u.f2)>>)
    \o TtlTriples(u.f30_x2, <<
        Pair(RDF_type, URIRef("lrm:F30_Manifestation_Creation")),
        Pair(RDFS_label, Lit(b.title \o " [Manifestation Creation]")),
        Pair("lrm:R24_created", u.x2)>>)
    \o TtlTriples(u.f30_f3src, <<
        Pair(RDF_type, URIRef("lrm:F30_Manifestation_Creation")),
        Pair(RDFS_label, Lit(FStr(b.source.idno) \o " [Manifestation Creation]")),
        Pair("lrm:R24_created", u.f3src)>>)
    \o f30_f3pub_triples(b, u)
    \o f32_triples(b, u)

\* e55_triples(): the static type triples, chained after the records
e55_triples ==
    Chain([j \in 1..Len(e55_pairs) |->
        TtlTriples(rem_mkuri(e55_pairs[j].hash, 0), <<
            Pair(RDF_type, URIRef("crm:E55_Type")),
            Pair(RDFS_label, Lit(e55_pairs[j].hash))>>)])
    \o <<Triple(rem_mkuri("Wikidata Genre [Type]", 0), "crm:P1_is_identified",
                URIRef("https://www.wikidata.org/entity/Q483394"))>>

RemGenerators == 8
\* triple_generators[k](self.bindings, uris)
RemGenerator(k, b, u, n) ==
    CASE k = 1 -> f1_triple_generator(b, u)
      [] k = 2 -> f2_triple_generator(b, u)
      [] k = 3 -> x2_triple_generator(b, u, n)
      [] k = 4 -> f3_triple_generator(b, u)
      [] k = 5 -> f5_triple_generator(b, u)
      [] k = 6 -> e17_triple_generator(b, u)
      [] k = 7 -> e35_triple_generator(b, u)
      [] k = 8 -> wemi_e2_triple_generator(b, u)

-----------------------------------------------------------------------------
(* The ReM runner (clscorgi/rem/runner.py): chain.from_iterable over the   *)
(* generators of the records, then the static type triples.                *)

\* the record the generator expression constructs next: the first one, or
\* the one after the record whose chain is exhausted
RemNextIndex == IF seg = 0 THEN idx ELSE idx + 1
RemRecordsLeft ==
    /\ status = "running"
    /\ seg \in {0, RemGenerators + 1}
    /\ RemNextIndex <= Len(batch)
RemRecordsDone ==
    /\ status = "running"
    /\ seg \in {0, RemGenerators + 1}
    /\ RemNextIndex > Len(batch)

\* ReMRDFGenerator(**bindings): validation, then generate_triples builds the
\* namespace and the lazy chain of the generators
RemConstruct ==
    /\ RemRecordsLeft
    /\ idx' = RemNextIndex
    /\ triples' = <<>>
    /\ LET raw == batch[RemNextIndex]
       IN IF ~RemValidates(raw)
          THEN /\ status' = "raised"
               /\ error' = "ValidationError"
               /\ bindings' = <<>> /\ uris' = <<>> /\ seg' = 0
               /\ UNCHANGED uuids
          ELSE /\ bindings' = ReMBindingsModel(raw)
               /\ uris' = generate_uri_namespace(uuids)
               /\ uuids' = uuids + RemRandomNames
               /\ seg' = 1
               /\ UNCHANGED <<status, error>>
    /\ UNCHANGED <<vocab_graph, batch, work_ids, f3_uris, author_ids, g>>
    /\ UNCHANGED notEltecVars

\* for triple in triples: graph.add(triple), through the next generator of
\* the record: map calls it with (self.bindings, uris), its triples are added
RemAddTriples ==
    /\ status = "running"
    /\ seg \in 1..RemGenerators
    /\ IF seg = 3 /\ x2_raises(bindings)
       THEN /\ status' = "raised"
            /\ error' = "AttributeError"
            /\ UNCHANGED <<seg, triples, g, uuids>>
       ELSE /\ LET ts == RemGenerator(seg, bindings, uris, uuids)
               IN /\ triples' = triples \o ts
                  /\ g' = g \cup {ts[j] : j \in 1..Len(ts)}
            /\ seg' = seg + 1
            /\ uuids' = uuids + (IF seg = 3 THEN x2_mkuri_calls ELSE 0)
            /\ UNCHANGED <<status, error>>
    /\ UNCHANGED <<vocab_graph, batch, idx, bindings, work_ids, f3_uris,
                   author_ids, uris>>
    /\ UNCHANGED notEltecVars

\* chain(main_triples, e55_triples()): the static triples after the records
RemE55Triples ==
    /\ RemRecordsDone
    /\ g' = g \cup {e55_triples[j] : j \in 1..Len(e55_triples)}
    /\ seg' = RemGenerators + 2
    /\ bindings' = <<>> /\ uris' = <<>> /\ triples' = <<>>
    /\ UNCHANGED <<vocab_graph, batch, idx, work_ids, f3_uris, author_ids,
                   status, error, uuids>>
    /\ UNCHANGED notEltecVars

\* f.write(graph.serialize())
RemSerialize ==
    /\ status = "running"
    /\ seg = RemGenerators + 2
    /\ status' = "written"
    /\ UNCHANGED <<vocab_graph, batch, idx, bindings, work_ids, f3_uris,
                   author_ids, uris, seg, triples, g, error, uuids>>
    /\ UNCHANGED notEltecVars

InitRem ==
    /\ vocab_graph = {}
    /\ batch \in RemBatches
    /\ idx = 1
    /\ bindings = <<>> /\ work_ids = <<>> /\ f3_uris = <<>>
    /\ author_ids = <<>> /\ uris = <<>>
    /\ seg = 0
    /\ triples = <<>>
    /\ g = {}
    /\ status = "running"
    /\ error = ""
    /\ uuids = 0
    /\ NotEltecIdle

NextRem == RemConstruct \/ RemAddTriples \/ RemE55Triples \/ RemSerialize

SpecRem == InitRem /\ [][NextRem]_vars

\* C24: when converting a record raised, none of the triples of that record
\* has been added to the graph.
C24_AtomicPerRecord ==
    status = "raised" => triples = <<>>

\* C25: generating triples for a record that passed validation does not
\* fail on a missing attribute.
C25_NoMissingAttribute ==
    (status = "raised" /\ bindings # <<>>) => error # "AttributeError"

\* C26: for every pair of e55_pairs, the URI the record namespace holds
\* under the name is the subject that e55_triples() types as E55_Type.
C26_SharedTypeUris ==
    uris # <<>> =>
        \A j \in 1..Len(e55_pairs) :
            \E i \in 1..Len(e55_triples) :
                /\ e55_triples[i].s = uris[e55_pairs[j].name]
                /\ e55_triples[i].p = RDF_type
                /\ e55_triples[i].o = URIRef("crm:E55_Type")

-----------------------------------------------------------------------------
(* The ReM triple generators applied to a validated record.                *)

\* triple_generators[k](bindings, uris) for one k
CallTripleGenerator ==
    /\ status = "running"
    /\ seg = 0
    /\ \E k \in 1..RemGenerators :
          /\ seg' = k
          /\ IF k = 3 /\ x2_raises(bindings)
             THEN /\ status' = "raised"
                  /\ error' = "AttributeError"
                  /\ UNCHANGED <<triples, uuids>>
             ELSE /\ triples' = RemGenerator(k, bindings, uris, uuids)
                  /\ uuids' = uuids + (IF k = 3 THEN x2_mkuri_calls ELSE 0)
                  /\ UNCHANGED <<status, error>>
    /\ UNCHANGED <<vocab_graph, batch, idx, bindings, work_ids, f3_uris,
                   author_ids, uris, g>>
    /\ UNCHANGED notEltecVars

InitRemFunctions ==
    /\ vocab_graph = {}
    /\ batch = <<>>
    /\ idx = 1
    /\ \E raw \in RemRecords :
          /\ RemValidates(raw)
          /\ bindings = ReMBindingsModel(raw)
    /\ uris = generate_uri_namespace(0)
    /\ uuids = RemRandomNames
    /\ work_ids = <<>> /\ f3_uris = <<>> /\ author_ids = <<>>
    /\ seg = 0
    /\ triples = <<>>
    /\ g = {}
    /\ status = "running"
    /\ error = ""
    /\ NotEltecIdle

NextRemFunctions == CallTripleGenerator

SpecRemFunctions == InitRemFunctions /\ [][NextRemFunctions]_vars

Mentions(t, node) == t.s = node \/ t.o = node

MaxTriples == 2         \* length of the stream generate_triples() yields
MaxConsumers == 2       \* iter(generator) calls
MaxSteps == 2           \* next() calls of the consumers on their iterators
MaxToGraph == 2         \* to_graph() calls
MaxNextCalls == 1       \* next() calls on the objects themselves

GenTripleValues == {"t1", "t2"}
GenStreams == UNION {SeqsOf(GenTripleValues, n) : n \in 0..MaxTriples}
\* graph: RDFLibGraph | None = None: a new graph, or the one handed in
GenInitialGraphs == {{}, {"t0"}}

\* RDFGenerator.__iter__: return self._triples, the one iterator of the object
RDFGenerator_iter_Fresh == Len(positions) + 1
RDFGenerator_iter == 1

\* the positions of the stream an iterator has not yielded yet
Unconsumed(it) == (positions[it] + 1)..Len(gen_triples)

\* iter(generator): a consumer gets the iterator __iter__ returns
GenIter ==
    /\ Len(consumers) < MaxConsumers
    /\ LET it == RDFGenerator_iter
       IN /\ consumers' = Append(consumers, it)
          /\ positions' = IF it > Len(positions) THEN Append(positions, 0)
                          ELSE positions
    /\ UNCHANGED <<gen_triples, delivered, rdf_graph, to_graph_calls, next_calls>>
    /\ UNCHANGED notGenVars

\* next(iterator) by a consumer (one step of its for loop): the next triple of
\* the iterator, or StopIteration
IterNext ==
    /\ Len(delivered) < MaxSteps
    /\ \E c \in DOMAIN consumers :
         LET it == consumers[c]
         IN IF Unconsumed(it) # {}
            THEN /\ delivered' = Append(delivered,
                        [consumer |-> c, outcome |-> "triple",
                         pos |-> positions[it] + 1,
                         triple |-> gen_triples[positions[it] + 1]])
                 /\ positions' = [positions EXCEPT ![it] = @ + 1]
            ELSE /\ delivered' = Append(delivered,
                        [consumer |-> c, outcome |-> "StopIteration",
                         pos |-> 0, triple |-> NONE])
                 /\ positions' = positions
    /\ UNCHANGED <<gen_triples, consumers, rdf_graph, to_graph_calls, next_calls>>
    /\ UNCHANGED notGenVars

\* to_graph(): for triple in self._triples: self._graph.add(triple)
ToGraph ==
    /\ Len(to_graph_calls) < MaxToGraph
    /\ LET taken == Unconsumed(1)
           after == rdf_graph \cup {gen_triples[p] : p \in taken}
       IN /\ rdf_graph' = after
          /\ positions' = [positions EXCEPT ![1] = Len(gen_triples)]
          /\ to_graph_calls' = Append(to_graph_calls,
                 [before |-> rdf_graph, consumed |-> positions[1],
                  taken |-> taken, after |-> after])
    /\ UNCHANGED <<gen_triples, consumers, delivered, next_calls>>
    /\ UNCHANGED notGenVars

\* next(generator): RDFGenerator.__next__ is `return next(self)`, which calls
\* __next__ of the same object again; the recursion ends in RecursionError
\* and no triple is taken from self._triples
RDFGeneratorNext ==
    /\ Len(next_calls) < MaxNextCalls
    /\ next_calls' = Append(next_calls,
           [object |-> "RDFGenerator", outcome |-> "RecursionError"])
    /\ UNCHANGED <<gen_triples, positions, consumers, delivered, rdf_graph,
                   to_graph_calls>>
    /\ UNCHANGED notGenVars

\* next(eltec_f3_triples(...)): __next__ is `return next(self)` as well
EltecF3Next ==
    /\ Len(next_calls) < MaxNextCalls
    /\ next_calls' = Append(next_calls,
           [object |-> "eltec_f3_triples", outcome |-> "RecursionError"])
    /\ UNCHANGED <<gen_triples, positions, consumers, delivered, rdf_graph,
                   to_graph_calls>>
    /\ UNCHANGED notGenVars

\* RDFGenerator.__init__: self._triples = self.generate_triples(),
\* self._graph = RDFLibGraph() if graph is None else graph
InitGen ==
    /\ gen_triples \in GenStreams
    /\ positions = <<0>>
    /\ consumers = <<>>
    /\ delivered = <<>>
    /\ rdf_graph \in GenInitialGraphs
    /\ to_graph_calls = <<>>
    /\ next_calls = <<>>
    /\ NotGenIdle

NextGen == GenIter \/ IterNext \/ ToGraph \/ RDFGeneratorNext \/ EltecF3Next

SpecGen == InitGen /\ [][NextGen]_vars

\* the consumers a position of the stream was delivered to
IterDeliveries(p) ==
    {i \in DOMAIN delivered :
        delivered[i].outcome = "triple" /\ delivered[i].pos = p}
GraphDeliveries(p) ==
    {k \in DOMAIN to_graph_calls : p \in to_graph_calls[k].taken}

\* C27: over any interleaving of iteration steps and to_graph() calls, every
\* triple of the stream taken so far was delivered to exactly one consumer
\* (one iteration step or one to_graph() call) and no triple to more than
\* one; a to_graph() call adds exactly the triples not consumed before it;
\* a second to_graph() call leaves the graph unchanged.
C27_ConsumedExactlyOnce ==
    /\ \A p \in 1..Len(gen_triples) :
         /\ Cardinality(IterDeliveries(p)) + Cardinality(GraphDeliveries(p))
              = (IF p <= positions[1] THEN 1 ELSE 0)
         /\ \A i \in IterDeliveries(p) : delivered[i].triple = gen_triples[p]
    /\ \A k \in DOMAIN to_graph_calls :
         LET call == to_graph_calls[k]
         IN /\ call.taken = (call.consumed + 1)..Len(gen_triples)
            /\ call.after = call.before \cup {gen_triples[p] : p \in call.taken}
            /\ k > 1 => call.after = call.before
    /\ to_graph_calls # <<>> =>
         rdf_graph = to_graph_calls[Len(to_graph_calls)].after

C27_Witness ==
    /\ Len(gen_triples) = MaxTriples
    /\ Len(consumers) = 2
    /\ \E i \in DOMAIN delivered :
         delivered[i].outcome = "triple" /\ delivered[i].consumer = 2
    /\ Len(to_graph_calls) = 2
    /\ to_graph_calls[1].taken # {}
    /\ to_graph_calls[1].consumed > 0

\* C28: every next() called on an RDFGenerator or on an eltec_f3_triples
\* object returns a triple or raises StopIteration.
C28_NextReturnsTriple ==
    \A i \in DOMAIN next_calls :
        next_calls[i].outcome \in {"triple", "StopIteration"}

\* ======================================================================
\* require_defaults (clscorgi/utils/utils.py) and the identifier triples of
\* the ReM manifestation template (clscorgi/rem/triple_generators.py)
\* ======================================================================

MaxParameters == 2      \* parameters of a decorated function

DefaultValues == {empty, NONE, "", "x"}
ParameterLists == UNION {SeqsOf(DefaultValues, n) : n \in 0..MaxParameters}
\* positional arguments that make a valid call: a parameter without a
\* default gets an argument
ArgumentLists(parameters) ==
    {args \in UNION {SeqsOf({"a"}, n) : n \in 0..Len(parameters)} :
        \A j \in 1..Len(parameters) : j > Len(args) => parameters[j] # empty}
\* what the decorated function returns: a tuple of the values its
\* parameters are bound to
f_result(parameters, args) ==
    <<"f">> \o [j \in 1..Len(parameters) |->
                   IF j <= Len(args) THEN args[j] ELSE parameters[j]]

\* a call of a function decorated with
\* require_defaults(check=check, fail_factory=fail_factory)
CallRequireDefaults ==
    /\ wrapper_calls = <<>> /\ f3_calls = <<>>
    /\ \E check \in Checks, fail_factory \in FailFactories,
          parameters \in ParameterLists :
         \E args \in ArgumentLists(parameters) :
            LET wrapper == require_defaults(check, fail_factory, parameters)
            IN wrapper_calls' = Append(wrapper_calls,
                  [check |-> check, fail_factory |-> fail_factory,
                   parameters |-> parameters, args |-> args,
                   executed |-> ~wrapper.skip,
                   returned |-> IF wrapper.skip THEN wrapper.value
                                ELSE f_result(parameters, args)])
    /\ UNCHANGED f3_calls
    /\ UNCHANGED notDecorVars

\* a call of f3_triple_generator(bindings, uris) on a validated record
CallF3TripleGenerator ==
    /\ wrapper_calls = <<>> /\ f3_calls = <<>>
    /\ \E raw \in RemRecords :
         /\ RemValidates(raw)
         /\ LET b == ReMBindingsModel(raw)
                u == generate_uri_namespace(0)
            IN f3_calls' = Append(f3_calls,
                  [pub |-> b.publication.idno, src |-> b.source.idno,
                   f3pub |-> u.f3pub, f3src |-> u.f3src,
                   triples |-> f3_triple_generator(b, u)])
    /\ UNCHANGED wrapper_calls
    /\ UNCHANGED notDecorVars

InitDecor ==
    /\ wrapper_calls = <<>>
    /\ f3_calls = <<>>
    /\ NotDecorIdle

NextDecor == CallRequireDefaults \/ CallF3TripleGenerator

SpecDecor == InitDecor /\ [][NextDecor]_vars

FailingDefaults(call) ==
    {j \in 1..Len(call.parameters) :
        /\ call.parameters[j] # empty
        /\ IF call.check = "bool"
           THEN call.parameters[j] \in {NONE, ""}
           ELSE call.parameters[j] = NONE}
HasIdnoTriples(call, s) ==
    \E i \in 1..Len(call.triples) :
        /\ call.triples[i].s = s
        /\ call.triples[i].p = "crm P1_is_identified_by"

\* C29: a function wrapped by require_defaults is skipped (not executed,
\* fail_factory(default) of a failing default returned, the empty tuple with
\* the default fail_factory) if and only if at least one of its declared
\* parameter defaults fails check; otherwise it is called with the given
\* arguments and its result is returned. In f3_triple_generator the
\* identifier triples of the publication manifestation are emitted exactly
\* when publication.idno has a value, those of the source manifestation
\* exactly when source.idno has a value.
C29_SkippedIffDefaultFails ==
    /\ \A i \in DOMAIN wrapper_calls :
         LET call == wrapper_calls[i]
         IN /\ call.executed <=> FailingDefaults(call) = {}
            /\ ~call.executed =>
                 /\ \E j \in FailingDefaults(call) :
                       call.returned =
                          (IF call.fail_factory = "tuple" THEN <<>>
                           ELSE <<call.parameters[j]>>)
            /\ call.executed =>
                 /\ Len(call.returned) = Len(call.parameters) + 1
                 /\ \A j \in 1..Len(call.args) :
                       call.returned[j + 1] = call.args[j]
    /\ \A i \in DOMAIN f3_calls :
         LET call == f3_calls[i]
         IN /\ HasIdnoTriples(call, call.f3pub) <=> call.pub \notin {NONE, ""}
            /\ HasIdnoTriples(call, call.f3src) <=> call.src \notin {NONE, ""}

C29_Witness ==
    \E i \in DOMAIN f3_calls :
        /\ HasIdnoTriples(f3_calls[i], f3_calls[i].f3src)
        /\ ~HasIdnoTriples(f3_calls[i], f3_calls[i].f3pub)

\* ======================================================================
\* ntimes / static (clscorgi/utils/utils.py)
\* ======================================================================

MaxN == 2               \* n of ntimes(n=..., default=...)
MaxDecorators == 2      \* decorator objects: static and those of ntimes(...) calls
MaxFunctions == 2       \* decorated functions
MaxNtimesCalls == 3     \* calls of decorated functions

\* default: None (the default of ntimes) or tuple() (static)
NtimesDefaults == {NONE, "()"}

\* static = ntimes(n=1, default=tuple())
static == [n |-> 1, default |-> "()", cnt |-> 0]

\* ntimes(n=n, default=default): _cnt = 0 in the scope of this call, and
\* _decor, the decorator object, is returned
NtimesDecorator ==
    /\ Len(decorators) < MaxDecorators
    /\ \E n \in 1..MaxN, default \in NtimesDefaults :
         decorators' = Append(decorators,
                              [n |-> n, default |-> default, cnt |-> 0])
    /\ UNCHANGED <<functions, ntimes_calls>>
    /\ UNCHANGED notNtimesVars

\* @decorator def f(...): _decor(f) returns a _wrapper that closes over f
\* and over the _cnt of the decorator object's scope
Decorate ==
    /\ Len(functions) < MaxFunctions
    /\ \E d \in DOMAIN decorators :
         functions' = Append(functions, d)
    /\ UNCHANGED <<decorators, ntimes_calls>>
    /\ UNCHANGED notNtimesVars

\* a call of a decorated function: _wrapper
CallDecorated ==
    /\ Len(ntimes_calls) < MaxNtimesCalls
    /\ \E j \in DOMAIN functions :
         LET d == functions[j]
             cnt == decorators[d].cnt + 1
         IN /\ decorators' = [decorators EXCEPT ![d].cnt = cnt]
            /\ ntimes_calls' = Append(ntimes_calls,
                  [function |-> j,
                   executed |-> cnt <= decorators[d].n,
                   returned |-> IF cnt <= decorators[d].n THEN "result"
                                ELSE decorators[d].default])
    /\ UNCHANGED functions
    /\ UNCHANGED notNtimesVars

\* the module is imported: static exists, nothing is decorated yet
InitNtimes ==
    /\ decorators = <<static>>
    /\ functions = <<>>
    /\ ntimes_calls = <<>>
    /\ NotNtimesIdle

NextNtimes == NtimesDecorator \/ Decorate \/ CallDecorated

SpecNtimes == InitNtimes /\ [][NextNtimes]_vars

\* the number of calls of function j among the first i calls
CallsOf(j, i) ==
    Cardinality({h \in 1..i : ntimes_calls[h].function = j})

\* C30: for each decorated function the first n calls of that function
\* execute it and return its result, every later call returns the default
\* without executing it; the count is per decorated function, also for
\* functions decorated with the same decorator object.
C30_CountPerFunction ==
    \A i \in DOMAIN ntimes_calls :
        LET call == ntimes_calls[i]
            d == decorators[functions[call.function]]
        IN /\ call.executed <=> CallsOf(call.function, i) <= d.n
           /\ call.returned = (IF call.executed THEN "result" ELSE d.default)

====
